---- MODULE Spec2Model ----
(***************************************************************************)
(* Thread-scoped hybrid search of email_rag_chatbot: the indexer that      *)
(* persists one bundle per thread (src/ingestion/indexer.py), the loader,  *)
(* and the BM25 + vector retrievers fused by Reciprocal Rank Fusion        *)
(* (src/retrieval).                                                        *)
(*                                                                         *)
(* Text is a sequence of words; a pickled file is the flat sequence of     *)
(* the fields of its objects.  Scores are exact rationals, written as      *)
(* integers over the common denominator ScoreDen below.                    *)
(***************************************************************************)
EXTENDS Integers, Sequences, FiniteSets, TLC

(***************************************************************************)
(* Bounds of the model.                                                    *)
(***************************************************************************)
\* index_thread calls that reach save_thread_index in one behaviour
MaxSaves == 2
\* words per email chunk (stands for chunk_size=1000 characters)
EmailChunkSize == 2
\* largest top_k a caller passes to retrieve
MaxTopK == 3
\* BM25 scores are drawn from 0..MaxScore
MaxScore == 1
\* attachment_splitter: chunk_size and chunk_overlap, in words
AttachmentChunkSize == 2
AttachmentOverlap == 1
\* add_turn calls between two clear calls of a memory
MaxAdds == 4
\* largest max_turns a ConversationMemory is constructed with
MaxTurnsArg == 3
\* ask calls of one session in one behaviour
MaxAsks == 2
\* sessions a server registers in one behaviour
MaxSessions == 3

(***************************************************************************)
(* Program constants.                                                      *)
(***************************************************************************)
\* HybridRetriever.__init__: k = 60
RRF_K == 60
\* save_thread_index: text_preview = page_content[:200]
PreviewLen == 200

Threads == {"T1", "T2"}
\* The thread the ingestion run holds mail for; the other id is one a
\* session may ask for but that was never indexed.
IngestThreads == {"T1"}
Writers == {"w1", "w2"}

NoThread == "none"

\* Thread messages handed to index_thread (records of the thread builder:
\* message_id, thread_id, subject, body).
Email1 == [message_id |-> "m1", thread_id |-> "T1",
           subject |-> <<"Budget">>, body |-> <<>>]
Email2 == [message_id |-> "m2", thread_id |-> "T1",
           subject |-> <<"Vendor">>, body |-> <<"draft", "Budget">>]

\* The email lists index_thread is called with: no mail, one mail, two
\* mails, and the same row twice (generate_id hashes the message text, so
\* a repeated row of the CSV repeats its message_id).
EmailInputs == {<<>>, <<Email1>>, <<Email1, Email2>>, <<Email1, Email1>>}

(***************************************************************************)
(* Chunker: Indexer.create_chunks.                                         *)
(***************************************************************************)
RECURSIVE split_text(_, _)
\* RecursiveCharacterTextSplitter.split_text: consecutive pieces of at most
\* `size` units, in order; text without content gives no piece.
split_text(text, size) ==
    IF text = <<>> THEN <<>>
    ELSE IF Len(text) <= size THEN <<text>>
    ELSE <<SubSeq(text, 1, size)>> \o split_text(SubSeq(text, size + 1, Len(text)), size)

\* f"Subject: {subject}\n\n{body}"
EmailText(email) == <<"Subject:">> \o email.subject \o email.body

\* The documents of one email: one Document per piece, chunk_id
\* f"{message_id}_chunk_{i}" (the string written as the sequence of its
\* parts), i from 0.
EmailChunks(email) ==
    LET chunks == split_text(EmailText(email), EmailChunkSize)
    IN  [i \in 1..Len(chunks) |->
           [page_content |-> chunks[i],
            metadata |-> [chunk_id   |-> <<email.message_id, "_chunk_", i - 1>>,
                          thread_id  |-> email.thread_id,
                          message_id |-> email.message_id,
                          doc_type   |-> "email",
                          subject    |-> email.subject]]]

\* The concatenation of a list of lists.
RECURSIVE Concat(_)
Concat(seqs) == IF seqs = <<>> THEN <<>> ELSE Head(seqs) \o Concat(Tail(seqs))

\* attachment_splitter.split_text: pieces of at most `size` units, each
\* starting `overlap` units before the end of the one before it; text
\* without content gives no piece.
RECURSIVE split_overlap(_, _, _)
split_overlap(text, size, overlap) ==
    IF text = <<>> THEN <<>>
    ELSE IF Len(text) <= size THEN <<text>>
    ELSE <<SubSeq(text, 1, size)>>
         \o split_overlap(SubSeq(text, size - overlap + 1, Len(text)), size, overlap)

\* attachment.get('message_id', 'unknown'): the records of
\* attachment_metadata.json have no message_id, load_attachments_for_thread
\* adds the one of the link.
GetMessageId(attachment) ==
    IF "message_id" \in DOMAIN attachment THEN attachment.message_id ELSE "unknown"

\* Page chunks whose chunk_id leaves out the page number.
PageChunksNoPage(thread_emails, attachment, page_data) ==
    LET chunks == split_overlap(page_data.text, AttachmentChunkSize, AttachmentOverlap)
    IN  [i \in 1..Len(chunks) |->
           [page_content |-> chunks[i],
            metadata |-> [chunk_id      |-> <<attachment.attachment_id, "_p",
                                              0, "_chunk_", i - 1>>,
                          thread_id     |-> thread_emails[1].thread_id,
                          message_id    |-> GetMessageId(attachment),
                          attachment_id |-> attachment.attachment_id,
                          doc_type      |-> attachment.file_type,
                          filename      |-> attachment.filename,
                          page_no       |-> page_data.page_no]]]

\* The documents of one page of an attachment, chunk_id
\* f"{attachment_id}_p{page_no}_chunk_{i}"; the thread_id is that of the
\* first email of the thread.
PageChunks(thread_emails, attachment, page_data) ==
    LET chunks == split_overlap(page_data.text, AttachmentChunkSize, AttachmentOverlap)
    IN  [i \in 1..Len(chunks) |->
           [page_content |-> chunks[i],
            metadata |-> [chunk_id      |-> <<attachment.attachment_id, "_p",
                                              page_data.page_no, "_chunk_", i - 1>>,
                          thread_id     |-> thread_emails[1].thread_id,
                          message_id    |-> GetMessageId(attachment),
                          attachment_id |-> attachment.attachment_id,
                          doc_type      |-> attachment.file_type,
                          filename      |-> attachment.filename,
                          page_no       |-> page_data.page_no]]]

\* The attachment loop of create_chunks.
AttachmentDocuments(thread_emails, attachments) ==
    Concat([a \in 1..Len(attachments) |->
              Concat([p \in 1..Len(attachments[a].pages) |->
                        PageChunks(thread_emails, attachments[a], attachments[a].pages[p])])])

\* The email loop of create_chunks.
EmailDocuments(thread_emails) ==
    Concat([e \in 1..Len(thread_emails) |-> EmailChunks(thread_emails[e])])

\* thread_emails[0] of an empty email list raises IndexError; it is
\* evaluated when the first chunk of an attachment page is built.
create_chunks_raises(thread_emails, attachments) ==
    /\ thread_emails = <<>>
    /\ \E a \in 1..Len(attachments) : \E p \in 1..Len(attachments[a].pages) :
          attachments[a].pages[p].text # <<>>

\* Indexer.create_chunks when it returns: the documents of the emails,
\* then those of the attachments.
create_chunks(thread_emails, attachments) ==
    EmailDocuments(thread_emails) \o AttachmentDocuments(thread_emails, attachments)

\* attachment_links.json: absent, or a list of links (filename, thread_id,
\* message_id).
NoLinksFile == [exists |-> FALSE, links |-> <<>>]
LinksFile(links) == [exists |-> TRUE, links |-> links]

\* Indexer.load_attachments_for_thread: per link of the thread, the first
\* attachment of attachment_metadata.json with the link's filename, with
\* the link's message_id and thread_id added.
load_attachments_for_thread(thread_id, links_file, attachments_data) ==
    IF ~links_file.exists THEN <<>>
    ELSE LET thread_links == SelectSeq(links_file.links, LAMBDA l : l.thread_id = thread_id)
             found(l) == {i \in 1..Len(attachments_data) :
                            attachments_data[i].filename = l.filename}
             att_data(l) == attachments_data[CHOOSE i \in found(l) :
                                               \A j \in found(l) : i <= j]
         IN  Concat([n \in 1..Len(thread_links) |->
                       IF found(thread_links[n]) = {} THEN <<>>
                       ELSE <<[attachment_id |-> att_data(thread_links[n]).attachment_id,
                               filename      |-> att_data(thread_links[n]).filename,
                               file_type     |-> att_data(thread_links[n]).file_type,
                               pages         |-> att_data(thread_links[n]).pages,
                               message_id    |-> thread_links[n].message_id,
                               thread_id     |-> thread_links[n].thread_id]>>])

(***************************************************************************)
(* Index builders.                                                         *)
(***************************************************************************)
\* str.lower() on a word
Lower(w) ==
    CASE w = "Subject:" -> "subject:"
      [] w = "Budget"   -> "budget"
      [] w = "Vendor"   -> "vendor"
      [] w = "Sarah"    -> "sarah"
      [] w = "Actually," -> "actually,"
      [] OTHER          -> w

\* doc.page_content.lower().split()
Tokenize(text) == [i \in 1..Len(text) |-> Lower(text[i])]

\* BM25Okapi(tokenized_docs): the tokenised corpus, one entry per document
\* in document order (its statistics are functions of this corpus).
build_bm25_index(documents) ==
    [corpus |-> [i \in 1..Len(documents) |-> Tokenize(documents[i].page_content)]]

\* A builder that leaves out the last document (its embedding is lost).
build_faiss_index_lossy(documents) ==
    [docstore |-> [i \in 1..(Len(documents) - 1) |-> documents[i]]]

\* FAISS.from_documents: one vector per document in document order; the
\* docstore entry of vector i is the Document itself.
build_faiss_index(documents) ==
    [docstore |-> [i \in 1..Len(documents) |-> documents[i]]]

(***************************************************************************)
(* Serialisation.                                                          *)
(***************************************************************************)
\* A dump that writes the first Document only.
PickleDocsFirstOnly(documents) ==
    IF documents = <<>> THEN <<>>
    ELSE <<documents[1].page_content, documents[1].metadata>>

\* pickle.dump(documents): the fields of each Document, one after another.
RECURSIVE PickleDocs(_)
PickleDocs(documents) ==
    IF documents = <<>> THEN <<>>
    ELSE <<Head(documents).page_content, Head(documents).metadata>>
         \o PickleDocs(Tail(documents))

\* pickle.load of a documents file.
RECURSIVE UnpickleDocs(_)
UnpickleDocs(bytes) ==
    IF Len(bytes) < 2 THEN <<>>
    ELSE <<[page_content |-> bytes[1], metadata |-> bytes[2]]>>
         \o UnpickleDocs(SubSeq(bytes, 3, Len(bytes)))

\* page_content[:200]
Preview(text) == SubSeq(text, 1, IF Len(text) < PreviewLen THEN Len(text) ELSE PreviewLen)

\* The dictionary json.dump writes to metadata.json.
Catalog(thread_id, documents) ==
    [thread_id   |-> thread_id,
     chunk_count |-> Len(documents),
     chunks      |-> [i \in 1..Len(documents) |->
                        [chunk_id     |-> documents[i].metadata.chunk_id,
                         text_preview |-> Preview(documents[i].page_content),
                         metadata     |-> documents[i].metadata]]]

(***************************************************************************)
(* Memory: ConversationMemory, EntityMemory and MemoryManager.  A message  *)
(* is the sequence of its words.                                           *)
(***************************************************************************)
\* ThreadSession.__init__: MemoryManager(max_turns=5)
SessionMaxTurns == 5

EntityTypes == {"people", "dates", "files", "amounts", "messages"}

\* What the patterns of EntityMemory find in one word: its type and value
\* (the id of a citation marker is found by the message-id pattern).
EntityOf(word) ==
    CASE word = "Sarah"               -> [type |-> "people", value |-> "Sarah"]
      [] word = "budget.pdf"          -> [type |-> "files", value |-> "budget.pdf"]
      [] word = "today"               -> [type |-> "dates", value |-> "today"]
      [] word = "[msg: m1]"           -> [type |-> "messages", value |-> "m1"]
      [] word = "[msg: m2, page: 3]"  -> [type |-> "messages", value |-> "m2"]
      [] OTHER                        -> [type |-> "none", value |-> ""]

\* extract_entities(text)[entity_type]: the values found, in text order.
extract_entities(text, entity_type) ==
    LET found == SelectSeq(text, LAMBDA word : EntityOf(word).type = entity_type)
    IN  [i \in 1..Len(found) |-> EntityOf(found[i]).value]

\* EntityMemory(): empty sets, an empty last_mentioned dictionary.
NoEntities == [entities |-> [t \in EntityTypes |-> {}], last_mentioned |-> <<>>]

\* EntityMemory.update: every value found is added to the set of its type
\* and becomes the last mentioned of its type.
entities_update(em, text) ==
    LET mentioned == {t \in EntityTypes : extract_entities(text, t) # <<>>}
    IN  [entities |->
            [t \in EntityTypes |->
                em.entities[t] \cup {extract_entities(text, t)[i] :
                                        i \in 1..Len(extract_entities(text, t))}],
         last_mentioned |->
            [t \in DOMAIN em.last_mentioned \cup mentioned |->
                IF t \in mentioned
                THEN extract_entities(text, t)[Len(extract_entities(text, t))]
                ELSE em.last_mentioned[t]]]

\* EntityMemory.clear
entities_clear(em) == NoEntities

\* self.last_mentioned.get(entity_type, "")
get_last_mentioned(em, entity_type) ==
    IF entity_type \in DOMAIN em.last_mentioned
    THEN em.last_mentioned[entity_type] ELSE ""

\* seq[-n:] of Python: the last n elements for n > 0 (all of them when
\* there are fewer), the whole list for n = 0 (-0 is 0), and the list
\* without its first -n elements for n < 0.
LastN(seq, n) ==
    IF n = 0 THEN seq
    ELSE IF n > 0
    THEN SubSeq(seq, IF Len(seq) > n THEN Len(seq) - n + 1 ELSE 1, Len(seq))
    ELSE SubSeq(seq, 1 - n, Len(seq))

\* ConversationMemory(max_turns): `buffer` is the LangChain
\* ConversationBufferMemory, `turns` the list of the class.
NewConversation(max_turns) ==
    [max_turns |-> max_turns, buffer |-> <<>>, turns |-> <<>>]

\* ConversationMemory.add_turn
conversation_add_turn(cm, user_message, assistant_message) ==
    LET appended == Append(cm.turns, [user |-> user_message,
                                      assistant |-> assistant_message])
    IN  [cm EXCEPT !.buffer = @ \o <<user_message, assistant_message>>,
                   !.turns = IF Len(appended) > cm.max_turns
                             THEN LastN(appended, cm.max_turns)
                             ELSE appended]

\* ConversationMemory.clear
conversation_clear(cm) == [cm EXCEPT !.buffer = <<>>, !.turns = <<>>]

\* ConversationMemory.get_recent_context: the lines "User: ..." and
\* "Assistant: ..." of the turns shown, the empty string for no turn.
get_recent_context(cm, n) ==
    LET turns_to_show == IF n # 0 THEN LastN(cm.turns, n) ELSE cm.turns
    IN  Concat([i \in 1..Len(turns_to_show) |->
                  <<[role |-> "User", text |-> turns_to_show[i].user],
                    [role |-> "Assistant", text |-> turns_to_show[i].assistant]>>])

\* get_last_user_message / get_last_assistant_message: <<>> is None.
get_last_user_message(cm) ==
    IF cm.turns # <<>> THEN <<cm.turns[Len(cm.turns)].user>> ELSE <<>>
get_last_assistant_message(cm) ==
    IF cm.turns # <<>> THEN <<cm.turns[Len(cm.turns)].assistant>> ELSE <<>>

\* MemoryManager(max_turns); `added` is history: the turns added since the
\* last clear.
NewMemory(max_turns) ==
    [conversation |-> NewConversation(max_turns), entities |-> NoEntities,
     added |-> <<>>]

\* The memory of a session that has just been constructed.
NoMemory == NewMemory(SessionMaxTurns)

\* MemoryManager.add_turn
memory_add_turn(m, user_message, assistant_message) ==
    [conversation |-> conversation_add_turn(m.conversation, user_message,
                                            assistant_message),
     entities |-> entities_update(entities_update(m.entities, user_message),
                                  assistant_message),
     added |-> Append(m.added, [user |-> user_message,
                                assistant |-> assistant_message])]

\* A clear that forgets the conversation and keeps the entities.
memory_clear_conversation(m) ==
    [conversation |-> conversation_clear(m.conversation),
     entities |-> m.entities,
     added |-> <<>>]

\* MemoryManager.clear
memory_clear(m) ==
    [conversation |-> conversation_clear(m.conversation),
     entities |-> entities_clear(m.entities),
     added |-> <<>>]

\* MemoryManager.get_context_for_rewrite
get_context_for_rewrite(m) ==
    [conversation_history   |-> get_recent_context(m.conversation, 3),
     last_user_message      |-> get_last_user_message(m.conversation),
     last_assistant_message |-> get_last_assistant_message(m.conversation),
     entities       |-> m.entities.entities,
     last_mentioned |-> [t \in EntityTypes |-> get_last_mentioned(m.entities, t)]]

(***************************************************************************)
(* State.                                                                  *)
(***************************************************************************)
VARIABLES
    disk,    \* INDEXES_DIR: per thread id, the directory and its four files
    wr,      \* per indexing process: where it is in index_thread
    rd,      \* the loading process: where it is in load_thread_index
    nsaves,  \* number of save_thread_index calls started
    saved,   \* history: per save, its thread, input, documents, how it ended
             \* and the content of documents.pkl when it returned
    hr,      \* the HybridRetriever a session holds
    ret,     \* the last retrieve call: its argument, both rankings, its result
    ck,      \* a chunking run: its inputs, the attachments loaded, its documents
    calls,   \* per concurrent caller of retrieve: where it is, its query, its result
    frames,  \* per call frame: the local result lists of a retrieve call
    mem,     \* the MemoryManager of a session, and the turns added since the last clear
    ask,     \* a ThreadSession.ask call: where it is, its locals, its outcome
    sessions \* the API: the session registry and the last response

vars == <<disk, wr, rd, nsaves, saved, hr, ret, ck, calls, frames, mem, ask, sessions>>
svars == <<mem, ask, sessions>>
rvars == <<hr, ret>>
pvars == <<disk, wr, rd, nsaves, saved>>
cvars == <<ck>>
qvars == <<calls, frames>>

\* A file: absent, truncated by a write that raised, or complete (with the
\* number of the save that wrote it).
Absent  == [st |-> "absent",  gen |-> 0, val |-> <<>>]
Partial == [st |-> "partial", gen |-> 0, val |-> <<>>]
File(g, v) == [st |-> "ok", gen |-> g, val |-> v]

NoDir == [dir |-> FALSE, bm25 |-> Absent, faiss |-> Absent,
          meta |-> Absent, docs |-> Absent]

WrIdle == [pc |-> "idle", tid |-> NoThread, documents |-> <<>>,
           bm25_index |-> <<>>, faiss_index |-> <<>>, gen |-> 0,
           before |-> NoDir, outcome |-> "none"]

RdIdle == [pc |-> "idle", tid |-> NoThread, bm25_index |-> Absent,
           faiss_index |-> Absent, documents |-> Absent, metadata |-> Absent,
           err |-> "none", nobundle |-> FALSE, after |-> 0]

\* All three artifacts of a thread are complete files.
HasBundle(d) ==
    d.dir /\ d.bm25.st = "ok" /\ d.faiss.st = "ok" /\ d.docs.st = "ok"

Loading == rd.pc \in {"bm25", "faiss", "docs", "meta"}

\* What the running load has seen of its thread, after the disk became d
\* and (started) a new index_thread call began.
Observe(d, started) ==
    IF Loading
    THEN [rd EXCEPT !.nobundle = @ /\ ~HasBundle(d[rd.tid]),
                    !.after = IF started THEN 0 ELSE @]
    ELSE rd

\* No retriever loaded, no retrieve call made.
NoRetriever == [loaded |-> FALSE]
\* The threads of a server that call retrieve on one retriever.
Callers == {"c1", "c2"}

\* No call in flight; the locals of a frame before they are assigned.
NoQuery == [top_k |-> 0, hit |-> 0, shift |-> 0]
CallIdle == [pc |-> "idle", query |-> NoQuery, results |-> <<>>,
             interleaved |-> FALSE]
NoFrame == [bm25_results |-> <<>>, vector_results |-> <<>>]

\* No chunking run.
NoChunking == [pc |-> "idle", thread_id |-> NoThread, thread_emails |-> <<>>,
               given |-> <<>>, links_file |-> NoLinksFile, attachments |-> <<>>,
               documents |-> <<>>, err |-> "none"]

\* A ThreadSession that has not been constructed, no ask call in flight:
\* the locals of ask before they are assigned.  `before` (the memory when
\* the call began), `steps` (the steps of the call so far), `asked` (the
\* calls so far), `llm_called` (the QA chain called its LLM), `llm_raised`
\* (the LLM call of the rewriter raised), `reset_done` (no turn was added since
\* the last reset) and `cleared` (the memory that reset cleared) are
\* history.
AskIdle == [pc |-> "idle", thread_id |-> NoThread, session_id |-> "",
            question |-> <<>>, top_k |-> 0, state |-> <<>>,
            rewritten_query |-> <<>>, retrieved_docs |-> <<>>,
            qa_result |-> <<>>, response |-> <<>>, err |-> "none",
            before |-> <<>>, steps |-> <<>>, asked |-> 0,
            llm_called |-> FALSE, llm_raised |-> FALSE, reset_done |-> FALSE,
            cleared |-> <<>>]

\* The API of a server that has just started: an empty registry, no
\* response yet.  `created` (ThreadSession objects registered so far) and
\* `asked` (ask calls so far) are history.
NoSessions == [registry |-> <<>>,
               response |-> [op |-> "none", status |-> 0, session_id |-> ""],
               created |-> 0, asked |-> 0]

NoCall == [top_k |-> 0, bm25_results |-> <<>>, vector_results |-> <<>>,
           fused |-> <<>>, results |-> <<>>, raised |-> "none",
           returned |-> FALSE]

Init ==
    /\ disk = [t \in Threads |-> NoDir]
    /\ wr = [w \in Writers |-> WrIdle]
    /\ rd = RdIdle
    /\ nsaves = 0
    /\ saved = <<>>
    /\ hr = NoRetriever
    /\ ret = NoCall
    /\ ck = NoChunking
    /\ calls = [c \in Callers |-> CallIdle]
    /\ frames = [c \in Callers |-> NoFrame]
    /\ mem = NoMemory
    /\ ask = AskIdle
    /\ sessions = NoSessions

(***************************************************************************)
(* Indexer.index_thread and save_thread_index, one file write per step.    *)
(* One thread is indexed by one process at a time (scripts/ingest.py runs  *)
(* the threads one after another).                                         *)
(***************************************************************************)
Busy(w) == wr[w].pc \in {"mkdir", "bm25", "faiss", "meta", "docs"}

\* An index_thread that creates the directory and writes the BM25 index
\* before the embedding call.
IndexThreadWritesFirst(w, thread_id, thread_emails, embed_ok) ==
    LET attachments == load_attachments_for_thread(thread_id, NoLinksFile, <<>>)
        documents   == create_chunks(thread_emails, attachments)
        saving      == documents # <<>> /\ embed_ok
    IN  /\ ~Busy(w)
        /\ \A o \in Writers \ {w} : Busy(o) => wr[o].tid # thread_id
        /\ saving => nsaves < MaxSaves
        /\ wr' = [wr EXCEPT ![w] =
                    IF documents = <<>>
                    THEN [WrIdle EXCEPT !.pc = "done", !.tid = thread_id,
                                        !.outcome = "empty"]
                    ELSE IF ~embed_ok
                    THEN [WrIdle EXCEPT !.pc = "done", !.tid = thread_id,
                                        !.outcome = "embed_error"]
                    ELSE [pc |-> "mkdir", tid |-> thread_id,
                          documents |-> documents,
                          bm25_index |-> build_bm25_index(documents),
                          faiss_index |-> build_faiss_index(documents),
                          gen |-> nsaves + 1, before |-> disk[thread_id],
                          outcome |-> "none"]]
        /\ nsaves' = IF saving THEN nsaves + 1 ELSE nsaves
        /\ saved' = IF saving
                    THEN Append(saved, [tid |-> thread_id, thread_emails |-> thread_emails,
                                        documents |-> documents, store |-> <<>>,
                                        status |-> "running"])
                    ELSE saved
        /\ rd' = Observe(disk, saving /\ rd.tid = thread_id)
        /\ disk' = IF documents # <<>> /\ ~embed_ok
                   THEN [disk EXCEPT ![thread_id].dir = TRUE,
                                     ![thread_id].bm25 =
                                         File(nsaves + 1, build_bm25_index(documents))]
                   ELSE disk
        /\ UNCHANGED <<rvars, cvars, qvars, svars>>

\* An index_thread that removes the directory of the thread when there is
\* nothing to index.
IndexThreadClearsEmpty(w, thread_id, thread_emails, embed_ok) ==
    LET attachments == load_attachments_for_thread(thread_id, NoLinksFile, <<>>)
        documents   == create_chunks(thread_emails, attachments)
        saving      == documents # <<>> /\ embed_ok
    IN  /\ ~Busy(w)
        /\ \A o \in Writers \ {w} : Busy(o) => wr[o].tid # thread_id
        /\ saving => nsaves < MaxSaves
        /\ wr' = [wr EXCEPT ![w] =
                    IF documents = <<>>
                    THEN [WrIdle EXCEPT !.pc = "done", !.tid = thread_id,
                                        !.outcome = "empty"]
                    ELSE IF ~embed_ok
                    THEN [WrIdle EXCEPT !.pc = "done", !.tid = thread_id,
                                        !.outcome = "embed_error"]
                    ELSE [pc |-> "mkdir", tid |-> thread_id,
                          documents |-> documents,
                          bm25_index |-> build_bm25_index(documents),
                          faiss_index |-> build_faiss_index(documents),
                          gen |-> nsaves + 1, before |-> disk[thread_id],
                          outcome |-> "none"]]
        /\ nsaves' = IF saving THEN nsaves + 1 ELSE nsaves
        /\ saved' = IF saving
                    THEN Append(saved, [tid |-> thread_id, thread_emails |-> thread_emails,
                                        documents |-> documents, store |-> <<>>,
                                        status |-> "running"])
                    ELSE saved
        /\ rd' = Observe(disk', saving /\ rd.tid = thread_id)
        /\ disk' = IF documents = <<>>
                   THEN [disk EXCEPT ![thread_id] = NoDir]
                   ELSE disk
        /\ UNCHANGED <<rvars, cvars, qvars, svars>>

\* index_thread up to the call of save_thread_index: load the attachments
\* (the ingestion run has no attachment_links.json), chunk, return early
\* on no documents, build both indexes (embed_ok: the embedding call
\* returned).
IndexThread(w, thread_id, thread_emails, embed_ok) ==
    LET attachments == load_attachments_for_thread(thread_id, NoLinksFile, <<>>)
        documents   == create_chunks(thread_emails, attachments)
        saving      == documents # <<>> /\ embed_ok
    IN  /\ ~Busy(w)
        /\ \A o \in Writers \ {w} : Busy(o) => wr[o].tid # thread_id
        /\ saving => nsaves < MaxSaves
        /\ wr' = [wr EXCEPT ![w] =
                    IF documents = <<>>
                    THEN [WrIdle EXCEPT !.pc = "done", !.tid = thread_id,
                                        !.outcome = "empty"]
                    ELSE IF ~embed_ok
                    THEN [WrIdle EXCEPT !.pc = "done", !.tid = thread_id,
                                        !.outcome = "embed_error"]
                    ELSE [pc |-> "mkdir", tid |-> thread_id,
                          documents |-> documents,
                          bm25_index |-> build_bm25_index(documents),
                          faiss_index |-> build_faiss_index(documents),
                          gen |-> nsaves + 1, before |-> disk[thread_id],
                          outcome |-> "none"]]
        /\ nsaves' = IF saving THEN nsaves + 1 ELSE nsaves
        /\ saved' = IF saving
                    THEN Append(saved, [tid |-> thread_id, thread_emails |-> thread_emails,
                                        documents |-> documents, store |-> <<>>,
                                        status |-> "running"])
                    ELSE saved
        /\ rd' = Observe(disk, saving /\ rd.tid = thread_id)
        /\ UNCHANGED <<disk, rvars, cvars, qvars, svars>>

\* thread_index_dir.mkdir(parents=True, exist_ok=True)
SaveMkdir(w) ==
    /\ wr[w].pc = "mkdir"
    /\ disk' = [disk EXCEPT ![wr[w].tid].dir = TRUE]
    /\ wr' = [wr EXCEPT ![w].pc = "bm25"]
    /\ rd' = Observe(disk', FALSE)
    /\ UNCHANGED <<nsaves, saved, rvars, cvars, qvars, svars>>

\* pickle.dump(bm25_index) into bm25_index.pkl
SaveBM25(w) ==
    /\ wr[w].pc = "bm25"
    /\ disk' = [disk EXCEPT ![wr[w].tid].bm25 = File(wr[w].gen, wr[w].bm25_index)]
    /\ wr' = [wr EXCEPT ![w].pc = "faiss"]
    /\ rd' = Observe(disk', FALSE)
    /\ UNCHANGED <<nsaves, saved, rvars, cvars, qvars, svars>>

\* faiss_index.save_local(faiss_dir)
SaveFaiss(w) ==
    /\ wr[w].pc = "faiss"
    /\ disk' = [disk EXCEPT ![wr[w].tid].faiss = File(wr[w].gen, wr[w].faiss_index)]
    /\ wr' = [wr EXCEPT ![w].pc = "meta"]
    /\ rd' = Observe(disk', FALSE)
    /\ UNCHANGED <<nsaves, saved, rvars, cvars, qvars, svars>>

\* json.dump of the catalog into metadata.json
SaveMeta(w) ==
    /\ wr[w].pc = "meta"
    /\ disk' = [disk EXCEPT ![wr[w].tid].meta =
                   File(wr[w].gen, Catalog(wr[w].tid, wr[w].documents))]
    /\ wr' = [wr EXCEPT ![w].pc = "docs"]
    /\ rd' = Observe(disk', FALSE)
    /\ UNCHANGED <<nsaves, saved, rvars, cvars, qvars, svars>>

\* A write that adds to what the file held (open(path, 'ab')).
AppendFile(old, g, v) == File(g, old.val \o v)

\* open(path, 'wb') and dump: the file holds what was dumped, nothing of
\* its earlier content.
WriteFile(old, g, v) == File(g, v)

\* A save whose documents.pkl lands in the directory of every thread (one
\* location shared by all threads).
SaveDocsAllThreads(w) ==
    /\ wr[w].pc = "docs"
    /\ disk' = [t \in Threads |->
                   [disk[t] EXCEPT !.docs =
                       WriteFile(@, wr[w].gen, PickleDocs(wr[w].documents))]]
    /\ wr' = [wr EXCEPT ![w].pc = "done", ![w].outcome = "ok"]
    /\ saved' = [saved EXCEPT ![wr[w].gen].status = "ok",
                              ![wr[w].gen].store = disk'[wr[w].tid].docs.val]
    /\ rd' = Observe(disk', FALSE)
    /\ UNCHANGED <<nsaves, rvars, cvars, qvars, svars>>

\* pickle.dump(documents) into documents.pkl; save_thread_index and
\* index_thread return.
SaveDocs(w) ==
    /\ wr[w].pc = "docs"
    /\ disk' = [disk EXCEPT ![wr[w].tid].docs =
                   WriteFile(@, wr[w].gen, PickleDocs(wr[w].documents))]
    /\ wr' = [wr EXCEPT ![w].pc = "done", ![w].outcome = "ok"]
    /\ saved' = [saved EXCEPT ![wr[w].gen].status = "ok",
                              ![wr[w].gen].store = disk'[wr[w].tid].docs.val]
    /\ rd' = Observe(disk', FALSE)
    /\ UNCHANGED <<nsaves, rvars, cvars, qvars, svars>>

\* The file a failed write leaves: untouched when open() raised, truncated
\* when the dump raised after open(..., 'w') emptied it.
FailedWrite(file, truncated) == IF truncated THEN Partial ELSE file

\* The write the save is at raises (disk full, permissions): nothing is
\* caught, the exception leaves save_thread_index and index_thread.
SaveFail(w, truncated) ==
    LET t == wr[w].tid
    IN  /\ Busy(w)
        /\ disk' = [disk EXCEPT ![t] =
                      CASE wr[w].pc = "mkdir" -> @
                        [] wr[w].pc = "bm25"  -> [@ EXCEPT !.bm25 = FailedWrite(@, truncated)]
                        [] wr[w].pc = "faiss" -> [@ EXCEPT !.faiss = FailedWrite(@, truncated)]
                        [] wr[w].pc = "meta"  -> [@ EXCEPT !.meta = FailedWrite(@, truncated)]
                        [] wr[w].pc = "docs"  -> [@ EXCEPT !.docs = FailedWrite(@, truncated)]]
        /\ wr' = [wr EXCEPT ![w].pc = "done", ![w].outcome = "save_error"]
        /\ saved' = [saved EXCEPT ![wr[w].gen].status = "failed"]
        /\ rd' = Observe(disk', FALSE)
        /\ UNCHANGED <<nsaves, rvars, cvars, qvars, svars>>

(***************************************************************************)
(* Indexer.load_thread_index, one file read per step.                      *)
(***************************************************************************)
\* The exception a read raises: open() of a missing pickle or json file
\* raises FileNotFoundError, a truncated file fails to deserialise, and
\* FAISS.load_local of a missing index raises the library's RuntimeError.
ReadError(file, missing) ==
    CASE file.st = "absent"  -> missing
      [] file.st = "partial" -> "Corrupt"
      [] OTHER               -> "none"

\* The writer that has just returned from a successful index_thread of
\* thread_id, if any: its save number, else 0.
JustSaved(thread_id) ==
    IF \E w \in Writers : wr[w].pc = "done" /\ wr[w].outcome = "ok" /\ wr[w].tid = thread_id
    THEN wr[CHOOSE w \in Writers :
              wr[w].pc = "done" /\ wr[w].outcome = "ok" /\ wr[w].tid = thread_id].gen
    ELSE 0

\* if not thread_index_dir.exists(): raise FileNotFoundError
LoadStart(thread_id) ==
    /\ ~Loading
    /\ rd' = IF ~disk[thread_id].dir
             THEN [RdIdle EXCEPT !.pc = "done", !.tid = thread_id,
                                 !.err = "NotFound", !.nobundle = TRUE]
             ELSE [RdIdle EXCEPT !.pc = "bm25", !.tid = thread_id,
                                 !.nobundle = ~HasBundle(disk[thread_id]),
                                 !.after = JustSaved(thread_id)]
    /\ UNCHANGED <<disk, wr, nsaves, saved, rvars, cvars, qvars, svars>>

\* One read of load_thread_index: the file at `field` of the directory is
\* kept under `key`; a failing read ends the load with its exception.
LoadStep(pc, field, key, missing, next) ==
    LET file == disk[rd.tid][field]
        e    == ReadError(file, missing)
    IN  /\ rd.pc = pc
        /\ rd' = IF e # "none"
                 THEN [rd EXCEPT !.pc = "done", !.err = e]
                 ELSE IF next = "done"
                 THEN [rd EXCEPT ![key] = file, !.pc = "done", !.err = "ok"]
                 ELSE [rd EXCEPT ![key] = file, !.pc = next]
        /\ UNCHANGED <<disk, wr, nsaves, saved, rvars, cvars, qvars, svars>>

LoadBM25  == LoadStep("bm25", "bm25", "bm25_index", "NotFound", "faiss")
LoadFaiss == LoadStep("faiss", "faiss", "faiss_index", "RuntimeError", "docs")
LoadDocs  == LoadStep("docs", "docs", "documents", "NotFound", "meta")
LoadMeta  == LoadStep("meta", "meta", "metadata", "NotFound", "done")

\* The dictionary load_thread_index returns.
LoadResult ==
    [bm25_index  |-> rd.bm25_index.val,
     faiss_index |-> rd.faiss_index.val,
     documents   |-> UnpickleDocs(rd.documents.val),
     metadata    |-> rd.metadata.val]

Loaded == rd.pc = "done" /\ rd.err = "ok"

W1 == "w1"

Next ==
    \/ \E t \in IngestThreads, e \in EmailInputs, ok \in BOOLEAN : IndexThread(W1, t, e, ok)
    \/ SaveMkdir(W1)
    \/ SaveBM25(W1)
    \/ SaveFaiss(W1)
    \/ SaveMeta(W1)
    \/ SaveDocs(W1)
    \/ \E truncated \in BOOLEAN : SaveFail(W1, truncated)
    \/ \E t \in Threads : LoadStart(t)
    \/ LoadBM25
    \/ LoadFaiss
    \/ LoadDocs
    \/ LoadMeta

Spec == Init /\ [][Next]_vars

(***************************************************************************)
(* Properties of the persisted bundle.                                     *)
(***************************************************************************)
\* Alignment invariant of a thread directory: three complete artifacts of
\* one length, position i being one chunk in all three.
Aligned(d) ==
    /\ HasBundle(d)
    /\ LET docs == UnpickleDocs(d.docs.val)
       IN  /\ Len(docs) = Len(d.bm25.val.corpus)
           /\ Len(docs) = Len(d.faiss.val.docstore)
           /\ \A i \in 1..Len(docs) :
                 /\ d.faiss.val.docstore[i].metadata.chunk_id = docs[i].metadata.chunk_id
                 /\ d.faiss.val.docstore[i].page_content = docs[i].page_content
                 /\ d.bm25.val.corpus[i] = Tokenize(docs[i].page_content)

\* C1: when index_thread has returned normally from a call that produced
\* at least one chunk, the thread's directory holds an aligned bundle of
\* as many entries as the call produced chunks.
C1_AlignedAfterIndex ==
    \A w \in Writers :
        (wr[w].pc = "done" /\ wr[w].outcome = "ok")
            => /\ Aligned(disk[wr[w].tid])
               /\ Len(disk[wr[w].tid].bm25.val.corpus) = Len(wr[w].documents)

\* C1 witness: a successful index_thread of several chunks has returned.
C1_Witness ==
    \E w \in Writers :
        /\ wr[w].pc = "done" /\ wr[w].outcome = "ok"
        /\ Len(wr[w].documents) >= 2
        /\ Aligned(disk[wr[w].tid])

NoSaveFailed == \A g \in 1..Len(saved) : saved[g].status # "failed"

\* C2: with every save running to its end, a load that returns a bundle
\* returns artifacts written by one and the same save.
C2_LoadSeesOneSave ==
    (Loaded /\ NoSaveFailed)
        => /\ rd.bm25_index.gen = rd.documents.gen
           /\ rd.faiss_index.gen = rd.documents.gen

\* C3: when save_thread_index has raised, the three artifacts of the
\* thread are what they were before the call.
C3_FailedSaveChangesNothing ==
    \A w \in Writers :
        (wr[w].pc = "done" /\ wr[w].outcome = "save_error")
            => /\ disk[wr[w].tid].bm25 = wr[w].before.bm25
               /\ disk[wr[w].tid].faiss = wr[w].before.faiss
               /\ disk[wr[w].tid].docs = wr[w].before.docs

\* C4: a load that starts after a save has returned, with no index_thread
\* call in between, returns the saved chunks (ids, text, metadata, order)
\* together with the two indexes of that save.
C4_RoundTrip ==
    (Loaded /\ rd.after > 0)
        => /\ LoadResult.documents = saved[rd.after].documents
           /\ rd.bm25_index.st = "ok" /\ rd.bm25_index.gen = rd.after
           /\ rd.faiss_index.st = "ok" /\ rd.faiss_index.gen = rd.after

\* C4 witness: such a load has returned a bundle of several chunks.
C4_Witness ==
    /\ Loaded /\ rd.after > 0
    /\ Len(LoadResult.documents) >= 2
    /\ LoadResult.documents = saved[rd.after].documents

\* C5: a load of a thread that had no complete bundle at any moment of the
\* load ends with the not-found error.
C5_NoBundleIsNotFound ==
    (rd.pc = "done" /\ rd.nobundle) => rd.err = "NotFound"

\* C6: a load that returns a bundle returns one whose three artifacts have
\* the same number of entries.
C6_LoadRejectsSizeMismatch ==
    Loaded
        => /\ Len(LoadResult.documents) = Len(LoadResult.bm25_index.corpus)
           /\ Len(LoadResult.documents) = Len(LoadResult.faiss_index.docstore)

\* Two positions of the sequence hold the same chunk_id.
HasDuplicateIds(documents) ==
    \E i, j \in 1..Len(documents) :
        i # j /\ documents[i].metadata.chunk_id = documents[j].metadata.chunk_id

\* C7: no chunk store with two chunks of one chunk_id is ever persisted.
C7_DuplicateIdsRejected ==
    \A t \in Threads :
        disk[t].docs.st = "ok" => ~HasDuplicateIds(UnpickleDocs(disk[t].docs.val))

(***************************************************************************)
(* Retrieval: BM25Retriever, VectorRetriever, HybridRetriever and the      *)
(* RetrieverFactory.  A weight is a rational [num, den]; a fused score is  *)
(* an integer number of units of 1 / ScoreDen.                             *)
(***************************************************************************)
\* RetrievalConfig.bm25_weight = 0.5, vector_weight = 0.5
DefaultBM25Weight   == [num |-> 1, den |-> 2]
DefaultVectorWeight == [num |-> 1, den |-> 2]

\* An optional weight argument: <<>> is None, <<w>> is the weight w.
WeightArgs == {<<>>, <<[num |-> 0, den |-> 1]>>, <<[num |-> 1, den |-> 2]>>,
               <<[num |-> 1, den |-> 1]>>}

\* `weight or default`: None and 0.0 are both falsy.
OrDefault(arg, default) ==
    IF arg = <<>> \/ arg[1].num = 0 THEN default ELSE arg[1]

\* RetrieverFactory.load_hybrid_retriever on the dictionary load_thread_index
\* returned.  `given` is history: the two weight arguments of the call.
load_hybrid_retriever(index_data, bm25_weight, vector_weight) ==
    [loaded |-> TRUE,
     bm25_retriever |-> [bm25_index |-> index_data.bm25_index,
                         documents  |-> index_data.documents],
     vector_retriever |-> [faiss_index |-> index_data.faiss_index],
     bm25_weight   |-> OrDefault(bm25_weight, DefaultBM25Weight),
     vector_weight |-> OrDefault(vector_weight, DefaultVectorWeight),
     k |-> RRF_K,
     given |-> [bm25_weight |-> bm25_weight, vector_weight |-> vector_weight]]

\* An insertion that puts x before the elements of equal key (a sort that
\* reverses ties).
RECURSIVE InsertDescTiesReversed(_, _)
InsertDescTiesReversed(sorted, x) ==
    IF sorted = <<>> THEN <<x>>
    ELSE IF Head(sorted).key > x.key
    THEN <<Head(sorted)>> \o InsertDescTiesReversed(Tail(sorted), x)
    ELSE <<x>> \o sorted

\* sorted(..., key=..., reverse=True) on a list of [key, val] pairs: a
\* stable sort, equal keys keep the order they came in.  InsertDesc puts x
\* behind every element whose key is not smaller.
RECURSIVE InsertDesc(_, _)
InsertDesc(sorted, x) ==
    IF sorted = <<>> THEN <<x>>
    ELSE IF Head(sorted).key >= x.key
    THEN <<Head(sorted)>> \o InsertDesc(Tail(sorted), x)
    ELSE <<x>> \o sorted

RECURSIVE SortedDesc(_)
SortedDesc(items) ==
    IF items = <<>> THEN <<>>
    ELSE InsertDesc(SortedDesc(SubSeq(items, 1, Len(items) - 1)), items[Len(items)])

\* seq[:n]
Take(seq, n) == SubSeq(seq, 1, IF Len(seq) < n THEN Len(seq) ELSE n)

\* BM25Retriever.retrieve: `scores` is what bm25_index.get_scores returns
\* for the query, one score per entry of the index.  `obj` names the
\* Document instance handed out: the entry of the unpickled documents list
\* (the vector retriever hands out the instances of the FAISS docstore).
BM25Retrieve(retriever, scores, top_k) ==
    LET top_indices ==
            Take(SortedDesc([i \in 1..Len(scores) |-> [key |-> scores[i], val |-> i]]),
                 top_k)
    IN  [r \in 1..Len(top_indices) |->
            [doc   |-> retriever.documents[top_indices[r].val],
             score |-> scores[top_indices[r].val],
             obj   |-> <<"documents", top_indices[r].val>>]]

\* VectorRetriever.retrieve: `nearest` lists the vectors of the index by
\* growing distance to the query; the search returns the first top_k of
\* them, and the score is the negated distance (here the negated place).
VectorRetrieve(retriever, nearest, top_k) ==
    LET found == Take(nearest, top_k)
    IN  [r \in 1..Len(found) |->
            [doc   |-> retriever.faiss_index.docstore[found[r]],
             score |-> 0 - r,
             obj   |-> <<"docstore", found[r]>>]]

RECURSIVE GCD(_, _)
GCD(a, b) == IF b = 0 THEN a ELSE GCD(b, a % b)

\* The least common multiple of k+1 .. k+n.
RECURSIVE RankLCM(_, _)
RankLCM(k, n) ==
    IF n = 0 THEN 1
    ELSE LET l == RankLCM(k, n - 1)
         IN  (l \div GCD(l, k + n)) * (k + n)

\* Scores of a retriever over n chunks are counted in units of 1/ScoreDen.
ScoreDen(k, n) == 2 * RankLCM(k, n)

\* weight / (k + rank), in units of 1/ScoreDen(k, n).
RRFScore(weight, k, rank, n) ==
    (weight.num * ScoreDen(k, n)) \div (weight.den * (k + rank))

\* A dictionary update that overwrites the score instead of adding to it.
DictAddOverwrite(items, doc_id, rrf_score, doc) ==
    IF \E j \in 1..Len(items) : items[j].doc_id = doc_id
    THEN [j \in 1..Len(items) |->
            IF items[j].doc_id = doc_id
            THEN [doc_id |-> doc_id, score |-> rrf_score, doc |-> doc]
            ELSE items[j]]
    ELSE Append(items, [doc_id |-> doc_id, score |-> rrf_score, doc |-> doc])

\* doc_scores[doc_id] = doc_scores.get(doc_id, 0) + rrf_score and
\* doc_objects[doc_id] = doc, on the dictionary kept as its item list (a
\* key stays where it was first inserted).
DictAdd(items, doc_id, rrf_score, doc) ==
    IF \E j \in 1..Len(items) : items[j].doc_id = doc_id
    THEN [j \in 1..Len(items) |->
            IF items[j].doc_id = doc_id
            THEN [doc_id |-> doc_id, score |-> items[j].score + rrf_score, doc |-> doc]
            ELSE items[j]]
    ELSE Append(items, [doc_id |-> doc_id, score |-> rrf_score, doc |-> doc])

\* A fusion loop that keys the dictionary by the Document instance
\* (id(doc)) instead of its chunk_id.
RECURSIVE FuseListByObject(_, _, _, _, _, _)
FuseListByObject(items, results, rank, weight, k, n) ==
    IF rank > Len(results) THEN items
    ELSE FuseListByObject(DictAdd(items, results[rank].obj,
                                  RRFScore(weight, k, rank, n), results[rank].doc),
                          results, rank + 1, weight, k, n)

\* One loop of _reciprocal_rank_fusion over a result list, from `rank` on.
RECURSIVE FuseList(_, _, _, _, _, _)
FuseList(items, results, rank, weight, k, n) ==
    IF rank > Len(results) THEN items
    ELSE FuseList(DictAdd(items, results[rank].doc.metadata.chunk_id,
                          RRFScore(weight, k, rank, n), results[rank].doc),
                  results, rank + 1, weight, k, n)

\* A fusion that ranks by the lexical list alone.
reciprocal_rank_fusion_lexical_only(h, bm25_results, vector_results, n) ==
    LET after_bm25  == FuseList(<<>>, bm25_results, 1, h.bm25_weight, h.k, n)
        sorted_docs ==
            SortedDesc([j \in 1..Len(after_bm25) |->
                          [key |-> after_bm25[j].score, val |-> after_bm25[j]]])
    IN  [i \in 1..Len(sorted_docs) |->
            [doc |-> sorted_docs[i].val.doc, score |-> sorted_docs[i].key]]

\* HybridRetriever._reciprocal_rank_fusion
reciprocal_rank_fusion(h, bm25_results, vector_results, n) ==
    LET after_bm25   == FuseList(<<>>, bm25_results, 1, h.bm25_weight, h.k, n)
        after_vector == FuseList(after_bm25, vector_results, 1, h.vector_weight, h.k, n)
        sorted_docs  ==
            SortedDesc([j \in 1..Len(after_vector) |->
                          [key |-> after_vector[j].score, val |-> after_vector[j]]])
    IN  [i \in 1..Len(sorted_docs) |->
            [doc |-> sorted_docs[i].val.doc, score |-> sorted_docs[i].key]]

\* Number of chunks of the loaded corpus.
CorpusSize == Len(hr.bm25_retriever.documents)

\* The orders in which a nearest-neighbour search can list n vectors.
SearchOrders(n) ==
    {p \in [1..n -> 1..n] : \A i, j \in 1..n : i # j => p[i] # p[j]}

\* A retrieve that catches the exception of a sub-retriever and goes on
\* with the other source.
Degrades(bm25_raised, vector_raised) == FALSE

\* retrieve has no try/except around its two sub-retriever calls: an
\* exception raised by either leaves retrieve.
Propagates(bm25_raised, vector_raised) == bm25_raised \/ vector_raised

\* HybridRetriever.retrieve(query, top_k); the query decides the BM25
\* scores and the order of the vectors, and whether a sub-retriever call
\* raises (the vector retriever is called after the lexical one returned).
Retrieve(top_k, scores, nearest, bm25_raised, vector_raised) ==
    LET retrieval_k    == top_k * 2
        bm25_results   == IF bm25_raised THEN <<>>
                          ELSE BM25Retrieve(hr.bm25_retriever, scores, retrieval_k)
        vector_results == IF vector_raised THEN <<>>
                          ELSE VectorRetrieve(hr.vector_retriever, nearest, retrieval_k)
        fused_results  == reciprocal_rank_fusion(hr, bm25_results, vector_results,
                                                 CorpusSize)
        raised         == IF bm25_raised THEN "bm25"
                          ELSE IF vector_raised THEN "vector" ELSE "none"
    IN  /\ hr.loaded
        /\ ret = NoCall
        /\ bm25_raised => ~vector_raised
        /\ ret' = IF Propagates(bm25_raised, vector_raised)
                  THEN [NoCall EXCEPT !.top_k = top_k, !.bm25_results = bm25_results,
                                      !.raised = raised]
                  ELSE [top_k |-> top_k, bm25_results |-> bm25_results,
                        vector_results |-> vector_results, fused |-> fused_results,
                        results |-> Take(fused_results, top_k), raised |-> raised,
                        returned |-> TRUE]
        /\ UNCHANGED <<hr, pvars, cvars, qvars, svars>>

\* The directory a save of `documents` leaves.
Persisted(thread_id, documents, g) ==
    [dir   |-> TRUE,
     bm25  |-> File(g, build_bm25_index(documents)),
     faiss |-> File(g, build_faiss_index(documents)),
     meta  |-> File(g, Catalog(thread_id, documents)),
     docs  |-> File(g, PickleDocs(documents))]

\* Thread T1 was indexed from one of the email lists and loaded,
\* undisturbed, by RetrieverFactory.load_hybrid_retriever.
InitLoaded ==
    \E emails \in EmailInputs, bw \in WeightArgs, vw \in WeightArgs :
        LET documents == create_chunks(emails, <<>>)
            d         == Persisted("T1", documents, 1)
        IN  /\ documents # <<>>
            /\ disk = [t \in Threads |-> IF t = "T1" THEN d ELSE NoDir]
            /\ wr = [w \in Writers |->
                       IF w = W1
                       THEN [pc |-> "done", tid |-> "T1", documents |-> documents,
                             bm25_index |-> build_bm25_index(documents),
                             faiss_index |-> build_faiss_index(documents),
                             gen |-> 1, before |-> NoDir, outcome |-> "ok"]
                       ELSE WrIdle]
            /\ rd = [pc |-> "done", tid |-> "T1", bm25_index |-> d.bm25,
                     faiss_index |-> d.faiss, documents |-> d.docs,
                     metadata |-> d.meta, err |-> "ok", nobundle |-> FALSE,
                     after |-> 1]
            /\ nsaves = 1
            /\ saved = <<[tid |-> "T1", thread_emails |-> emails,
                          documents |-> documents, store |-> d.docs.val,
                          status |-> "ok"]>>
            /\ hr = load_hybrid_retriever(
                        [bm25_index  |-> d.bm25.val, faiss_index |-> d.faiss.val,
                         documents   |-> UnpickleDocs(d.docs.val),
                         metadata    |-> d.meta.val], bw, vw)
            /\ ret = NoCall
            /\ ck = NoChunking
            /\ calls = [c \in Callers |-> CallIdle]
            /\ frames = [c \in Callers |-> NoFrame]

\* A retriever right after RetrieverFactory.load_hybrid_retriever.
InitRetrieve ==
    /\ InitLoaded
    /\ mem = NoMemory
    /\ ask = AskIdle
    /\ sessions = NoSessions

\* The caller has consumed the result list or the exception; the retriever
\* keeps nothing of a call.
Return ==
    /\ ret # NoCall
    /\ ret' = NoCall
    /\ UNCHANGED <<hr, pvars, cvars, qvars, svars>>

NextRetrieve ==
    \/ \E top_k \in 1..MaxTopK :
          \E scores \in [1..Len(hr.bm25_retriever.bm25_index.corpus) -> 0..MaxScore] :
            \E nearest \in SearchOrders(Len(hr.vector_retriever.faiss_index.docstore)) :
              \E bm25_raised, vector_raised \in BOOLEAN :
                Retrieve(top_k, scores, nearest, bm25_raised, vector_raised)
    \/ Return

SpecRetrieve == InitRetrieve /\ [][NextRetrieve]_vars

(***************************************************************************)
(* Properties of the fused ranking.                                        *)
(***************************************************************************)
\* retrieve has returned a list.
Called == ret.returned

\* The ranks (1-indexed places) at which a result list holds chunk id.
RanksOf(results, id) ==
    {r \in 1..Len(results) : results[r].doc.metadata.chunk_id = id}

\* weight / (RRF_K + r) summed over a set of ranks, in units of
\* 1/ScoreDen(RRF_K, CorpusSize).
RECURSIVE SumOverRanks(_, _)
SumOverRanks(ranks, weight) ==
    IF ranks = {} THEN 0
    ELSE LET r == CHOOSE x \in ranks : TRUE
         IN  (weight.num * ScoreDen(RRF_K, CorpusSize)) \div (weight.den * (RRF_K + r))
             + SumOverRanks(ranks \ {r}, weight)

\* Every term above is an exact number of units.
ExactUnits ==
    \A r \in 1..CorpusSize, w \in {hr.bm25_weight, hr.vector_weight} :
        (w.num * ScoreDen(RRF_K, CorpusSize)) % (w.den * (RRF_K + r)) = 0

Half == [num |-> 1, den |-> 2]

MsgOrder(m) == CASE m = "m1" -> 1 [] m = "m2" -> 2

\* Lexical order of f"{message_id}_chunk_{i}" (one-digit i).
ChunkIdLess(a, b) ==
    \/ MsgOrder(a[1]) < MsgOrder(b[1])
    \/ a[1] = b[1] /\ a[3] < b[3]

\* C9: the returned list is sorted by fused score, highest first, and
\* chunks of equal score stand in ascending lexical order of chunk_id.
C9_SortedWithIdTieBreak ==
    \A i, j \in 1..Len(ret.results) :
        i < j =>
            /\ ret.results[i].score >= ret.results[j].score
            /\ ret.results[i].score = ret.results[j].score
                 => ChunkIdLess(ret.results[i].doc.metadata.chunk_id,
                                ret.results[j].doc.metadata.chunk_id)

\* C10: retrieve returns at most top_k results, and as many results as the
\* corpus has chunks when top_k exceeds the corpus size.
C10_ResultCount ==
    Called =>
        /\ Len(ret.results) <= ret.top_k
        /\ ret.top_k > CorpusSize => Len(ret.results) = CorpusSize
\* C11: the fused list (and so the returned list) holds every chunk_id at
\* most once; a chunk that the lexical and the vector retriever both
\* returned, as two different Document instances, is one entry.
C11_FusedOncePerChunk ==
    Called =>
        /\ \A i, j \in 1..Len(ret.fused) :
              i # j => ret.fused[i].doc.metadata.chunk_id # ret.fused[j].doc.metadata.chunk_id
        /\ \A b \in 1..Len(ret.bm25_results), v \in 1..Len(ret.vector_results) :
              LET id == ret.bm25_results[b].doc.metadata.chunk_id
              IN  id = ret.vector_results[v].doc.metadata.chunk_id
                    => Cardinality({i \in 1..Len(ret.fused) :
                                      ret.fused[i].doc.metadata.chunk_id = id}) = 1

\* C11 witness: a call in which both retrievers returned the same chunk as
\* different instances, and the fused list holds it once.
C11_Witness ==
    /\ Called
    /\ \E b \in 1..Len(ret.bm25_results), v \in 1..Len(ret.vector_results) :
          LET id == ret.bm25_results[b].doc.metadata.chunk_id
          IN  /\ id = ret.vector_results[v].doc.metadata.chunk_id
              /\ ret.bm25_results[b].obj # ret.vector_results[v].obj
              /\ Cardinality({i \in 1..Len(ret.fused) :
                                ret.fused[i].doc.metadata.chunk_id = id}) = 1
\* C12: when the lexical or the vector sub-retriever raised during
\* retrieve, retrieve has not returned a list (neither one fused from the
\* surviving source nor an empty one): the exception reached the caller.
C12_FailurePropagates ==
    ret.raised # "none" => (~ret.returned /\ ret.fused = <<>> /\ ret.results = <<>>)

\* C12 witness: the vector retriever raised after the lexical one had
\* returned results, and retrieve ended with the exception.
C12_Witness ==
    /\ ret.raised = "vector"
    /\ ret.bm25_results # <<>>
    /\ ~ret.returned
\* C13: the retriever load_hybrid_retriever returns carries each weight
\* that was given (zero included) and the configured default 0.5 for a
\* weight that was not given.
C13_FactoryWeights ==
    hr.loaded =>
        /\ hr.bm25_weight = IF hr.given.bm25_weight = <<>> THEN DefaultBM25Weight
                             ELSE hr.given.bm25_weight[1]
        /\ hr.vector_weight = IF hr.given.vector_weight = <<>> THEN DefaultVectorWeight
                               ELSE hr.given.vector_weight[1]
\* The smaller of two numbers.
Min(a, b) == IF a < b THEN a ELSE b

\* C14: BM25Retriever.retrieve(query, top_k) (called by retrieve with twice
\* its own top_k) returns min(top_k, corpus size) results, ordered by score
\* descending, chunks of equal score in corpus order (lower position
\* first).
C14_BM25Order ==
    (ret.top_k > 0 /\ ret.raised # "bm25") =>
        LET r == ret.bm25_results
        IN  /\ Len(r) = Min(2 * ret.top_k, CorpusSize)
            /\ \A i, j \in 1..Len(r) :
                  i < j => /\ r[i].score >= r[j].score
                           /\ r[i].score = r[j].score => r[i].obj[2] < r[j].obj[2]
            /\ \A i \in 1..Len(r) :
                  r[i].doc = hr.bm25_retriever.documents[r[i].obj[2]]

\* C14 witness: a lexical result list cut below the corpus size, holding
\* two chunks of equal score in corpus order.
C14_Witness ==
    /\ ret.top_k > 0 /\ ret.raised # "bm25"
    /\ Len(ret.bm25_results) < CorpusSize
    /\ \E i, j \in 1..Len(ret.bm25_results) :
          /\ i < j
          /\ ret.bm25_results[i].score = ret.bm25_results[j].score
          /\ ret.bm25_results[i].obj[2] < ret.bm25_results[j].obj[2]
(***************************************************************************)
(* A chunking run: index_thread from its call to the documents that        *)
(* create_chunks returns, over threads with attachments.                   *)
(***************************************************************************)
\* A message without subject and body.
Email0 == [message_id |-> "m0", thread_id |-> "T1", subject |-> <<>>, body |-> <<>>]

\* The email lists of a chunking run: up to two of three messages, a
\* message twice included.
ChunkEmailInputs ==
    {<<>>} \cup {<<e>> : e \in {Email0, Email1, Email2}}
           \cup {<<e1, e2>> : e1, e2 \in {Email0, Email1, Email2}}

\* attachment_metadata.json: a PDF of three pages, the second without text
\* after cleaning, and a text file.
Att1 == [attachment_id |-> "a1", filename |-> "budget.pdf", file_type |-> "pdf",
         pages |-> <<[page_no |-> 1, text |-> <<"Budget", "table", "total">>],
                     [page_no |-> 2, text |-> <<>>],
                     [page_no |-> 3, text |-> <<"total">>]>>]
Att2 == [attachment_id |-> "a2", filename |-> "notes.txt", file_type |-> "txt",
         pages |-> <<[page_no |-> 1, text |-> <<"notes">>]>>]
AttachmentsData == <<Att1, Att2>>

\* One entry of attachment_links.json.
Link(filename, thread_id, message_id) ==
    [filename |-> filename, thread_id |-> thread_id, message_id |-> message_id]

\* attachment_links.json of a run: absent, empty, one file linked, two
\* files linked, one file linked to two messages of the thread, a link of
\* another thread, a link to a file that was not extracted.
LinkInputs ==
    {NoLinksFile,
     LinksFile(<<>>),
     LinksFile(<<Link("budget.pdf", "T1", "m1")>>),
     LinksFile(<<Link("budget.pdf", "T1", "m1"), Link("notes.txt", "T1", "m2")>>),
     LinksFile(<<Link("budget.pdf", "T1", "m1"), Link("budget.pdf", "T1", "m2")>>),
     LinksFile(<<Link("notes.txt", "T2", "m9")>>),
     LinksFile(<<Link("missing.pdf", "T1", "m1")>>)}

\* The attachments argument of index_thread: <<>> is None, <<list>> a list
\* handed in by the caller: the empty list of scripts/ingest.py, or the
\* records of the extractor (attachment_metadata.json) as they are.
AttachmentArgs == {<<>>, << <<>> >>, <<AttachmentsData>>}

\* index_thread(thread_id, thread_emails, attachments) has been called.
InitChunks ==
    /\ disk = [t \in Threads |-> NoDir]
    /\ wr = [w \in Writers |-> WrIdle]
    /\ rd = RdIdle
    /\ nsaves = 0
    /\ saved = <<>>
    /\ hr = NoRetriever
    /\ ret = NoCall
    /\ calls = [c \in Callers |-> CallIdle]
    /\ frames = [c \in Callers |-> NoFrame]
    /\ mem = NoMemory
    /\ ask = AskIdle
    /\ sessions = NoSessions
    /\ \E thread_emails \in ChunkEmailInputs, given \in AttachmentArgs,
          links_file \in LinkInputs :
          /\ given # <<>> => links_file = NoLinksFile
          /\ ck = [NoChunking EXCEPT !.pc = "start", !.thread_id = "T1",
                                     !.thread_emails = thread_emails,
                                     !.given = given,
                                     !.links_file = links_file]

\* if attachments is None:
\*     attachments = self.load_attachments_for_thread(thread_id)
LoadAttachments ==
    /\ ck.pc = "start"
    /\ ck' = [ck EXCEPT !.pc = "loaded",
                        !.attachments =
                            IF ck.given = <<>>
                            THEN load_attachments_for_thread(
                                     ck.thread_id, ck.links_file, AttachmentsData)
                            ELSE ck.given[1]]
    /\ UNCHANGED <<pvars, rvars, qvars, svars>>

\* documents = self.create_chunks(thread_emails, attachments)
CreateChunks ==
    /\ ck.pc = "loaded"
    /\ ck' = IF create_chunks_raises(ck.thread_emails, ck.attachments)
             THEN [ck EXCEPT !.pc = "done", !.err = "IndexError"]
             ELSE [ck EXCEPT !.pc = "done",
                             !.documents = create_chunks(ck.thread_emails, ck.attachments)]
    /\ UNCHANGED <<pvars, rvars, qvars, svars>>

NextChunks ==
    \/ LoadAttachments
    \/ CreateChunks

SpecChunks == InitChunks /\ [][NextChunks]_vars

\* create_chunks has returned the documents.
Chunked == ck.pc = "done" /\ ck.err = "none"

\* The source identifiers of the run are unique: no two emails of one
\* message_id, no two attachments of one attachment_id, no two pages of
\* one attachment with one page_no.
UniqueSources ==
    /\ \A i, j \in 1..Len(ck.thread_emails) :
          i # j => ck.thread_emails[i].message_id # ck.thread_emails[j].message_id
    /\ \A a, b \in 1..Len(ck.attachments) :
          a # b => ck.attachments[a].attachment_id # ck.attachments[b].attachment_id
    /\ \A a \in 1..Len(ck.attachments) :
          \A p, q \in 1..Len(ck.attachments[a].pages) :
             p # q => ck.attachments[a].pages[p].page_no # ck.attachments[a].pages[q].page_no

\* C15: the chunk_ids of the documents create_chunks returns for a thread
\* are pairwise distinct whenever the source identifiers of its emails and
\* attachments (message ids, attachment ids with page numbers) are unique.
C15_ChunkIdsDistinct ==
    (Chunked /\ UniqueSources) => ~HasDuplicateIds(ck.documents)

\* C15 witness: a run over two emails and two attachments with unique
\* identifiers, with an email and a page that give several chunks each.
C15_Witness ==
    /\ Chunked /\ UniqueSources
    /\ Len(ck.thread_emails) = 2 /\ Len(ck.attachments) = 2
    /\ \E i, j \in 1..Len(ck.documents) :
          /\ ck.documents[i].metadata.doc_type = "email"
          /\ ck.documents[j].metadata.doc_type = "pdf"
          /\ ck.documents[i].metadata.chunk_id[3] > 0
          /\ ck.documents[j].metadata.chunk_id[5] > 0
    /\ ~HasDuplicateIds(ck.documents)
\* C16: an email without subject and body, and an attachment page without
\* text, contribute no chunk to the documents create_chunks returns.
C16_EmptyTextNoChunk ==
    Chunked =>
        /\ \A e \in 1..Len(ck.thread_emails) :
              (ck.thread_emails[e].subject = <<>> /\ ck.thread_emails[e].body = <<>>)
                 => \A i \in 1..Len(ck.documents) :
                       ~(/\ ck.documents[i].metadata.doc_type = "email"
                         /\ ck.documents[i].metadata.message_id
                              = ck.thread_emails[e].message_id)
        /\ \A a \in 1..Len(ck.attachments) :
              \A p \in 1..Len(ck.attachments[a].pages) :
                 ck.attachments[a].pages[p].text = <<>>
                    => \A i \in 1..Len(ck.documents) :
                          ~(/\ ck.documents[i].metadata.doc_type # "email"
                            /\ ck.documents[i].metadata.attachment_id
                                 = ck.attachments[a].attachment_id
                            /\ ck.documents[i].metadata.page_no
                                 = ck.attachments[a].pages[p].page_no)
(***************************************************************************)
(* Properties of rebuilds.                                                 *)
(***************************************************************************)
\* The chunk ids of a documents.pkl content, in order.
StoreIds(bytes) ==
    [i \in 1..Len(UnpickleDocs(bytes)) |-> UnpickleDocs(bytes)[i].metadata.chunk_id]

\* C17: when index_thread has returned from a second run on a thread whose
\* messages are those of the run before it, which had returned too, the
\* chunk store holds the chunk ids it held after the first run, in the
\* same order.
C17_RebuildIdempotent ==
    \A w \in Writers :
        (/\ wr[w].pc = "done" /\ wr[w].outcome = "ok" /\ wr[w].gen >= 2
         /\ saved[wr[w].gen - 1].status = "ok"
         /\ saved[wr[w].gen - 1].tid = wr[w].tid
         /\ saved[wr[w].gen - 1].thread_emails = saved[wr[w].gen].thread_emails)
            => StoreIds(disk[wr[w].tid].docs.val) = StoreIds(saved[wr[w].gen - 1].store)

\* C17 witness: a second run over the same two messages has returned and
\* the chunk store holds the three chunk ids of the first run.
C17_Witness ==
    \E w \in Writers :
        /\ wr[w].pc = "done" /\ wr[w].outcome = "ok" /\ wr[w].gen = 2
        /\ saved[1].status = "ok" /\ saved[1].tid = wr[w].tid
        /\ saved[1].thread_emails = saved[2].thread_emails
        /\ Len(StoreIds(saved[1].store)) >= 3
        /\ StoreIds(disk[wr[w].tid].docs.val) = StoreIds(saved[1].store)
(***************************************************************************)
(* Concurrent retrieve calls on one loaded HybridRetriever: each call runs *)
(* its lexical search, its vector search and the fusion as separate steps, *)
(* interleaved with the steps of the other caller.                         *)
(***************************************************************************)
\* A query, by what the two indexes answer to it: the corpus positions of
\* parity `hit` match its words, and the vectors lie nearest in corpus
\* order rotated by `shift`.
ConcurrentQueries ==
    {[top_k |-> k, hit |-> h, shift |-> sh] : k \in 1..MaxTopK, h \in 0..1, sh \in 0..1}

\* bm25_index.get_scores for the query, over n entries.
QueryScores(q, n) == [i \in 1..n |-> IF i % 2 = q.hit THEN 1 ELSE 0]

\* The vectors of the index by growing distance to the query.
QueryNearest(q, n) == [i \in 1..n |-> ((i - 1 + q.shift) % n) + 1]

\* One frame for every caller (locals kept on a shared object).
SharedFrame(c) == "c1"

\* bm25_results, vector_results and the fusion dictionaries are locals of
\* the call: every call has a frame of its own.
Frame(c) == c

\* The calls after caller c moved to `call`: a call of another caller that
\* is between its steps has been interleaved with.
StepOf(c, call) ==
    [d \in Callers |->
        IF d = c THEN call
        ELSE IF calls[d].pc \in {"vector", "fuse"}
        THEN [calls[d] EXCEPT !.interleaved = TRUE]
        ELSE calls[d]]

\* A session right after load_hybrid_retriever with the default weights.
InitConcurrent ==
    /\ InitRetrieve
    /\ hr.given.bm25_weight = <<>>
    /\ hr.given.vector_weight = <<>>

\* retrieve(query, top_k) is entered: retrieval_k = top_k * 2
CallRetrieve(c, q) ==
    /\ hr.loaded
    /\ calls[c].pc = "idle"
    /\ calls' = StepOf(c, [CallIdle EXCEPT !.pc = "bm25", !.query = q])
    /\ frames' = [frames EXCEPT ![Frame(c)] = NoFrame]
    /\ UNCHANGED <<pvars, rvars, cvars, svars>>

\* bm25_results = self.bm25_retriever.retrieve(query, top_k=retrieval_k)
CallBM25(c) ==
    LET q == calls[c].query
    IN  /\ calls[c].pc = "bm25"
        /\ frames' = [frames EXCEPT ![Frame(c)].bm25_results =
                         BM25Retrieve(hr.bm25_retriever,
                                      QueryScores(q, Len(hr.bm25_retriever.bm25_index.corpus)),
                                      q.top_k * 2)]
        /\ calls' = StepOf(c, [calls[c] EXCEPT !.pc = "vector"])
        /\ UNCHANGED <<pvars, rvars, cvars, svars>>

\* vector_results = self.vector_retriever.retrieve(query, top_k=retrieval_k)
CallVector(c) ==
    LET q == calls[c].query
    IN  /\ calls[c].pc = "vector"
        /\ frames' = [frames EXCEPT ![Frame(c)].vector_results =
                         VectorRetrieve(hr.vector_retriever,
                                        QueryNearest(q, Len(hr.vector_retriever.faiss_index.docstore)),
                                        q.top_k * 2)]
        /\ calls' = StepOf(c, [calls[c] EXCEPT !.pc = "fuse"])
        /\ UNCHANGED <<pvars, rvars, cvars, svars>>

\* fused_results = self._reciprocal_rank_fusion(...); return fused_results[:top_k]
CallFuse(c) ==
    LET f == frames[Frame(c)]
        fused_results == reciprocal_rank_fusion(hr, f.bm25_results, f.vector_results,
                                                CorpusSize)
    IN  /\ calls[c].pc = "fuse"
        /\ calls' = StepOf(c, [calls[c] EXCEPT !.pc = "done",
                                               !.results = Take(fused_results, calls[c].query.top_k)])
        /\ UNCHANGED <<frames, pvars, rvars, cvars, svars>>

\* The caller has consumed the list and may call again.
CallReturn(c) ==
    /\ calls[c].pc = "done"
    /\ calls' = [calls EXCEPT ![c] = CallIdle]
    /\ UNCHANGED <<frames, pvars, rvars, cvars, svars>>

NextConcurrent ==
    \/ \E c \in Callers, q \in ConcurrentQueries : CallRetrieve(c, q)
    \/ \E c \in Callers : CallBM25(c)
    \/ \E c \in Callers : CallVector(c)
    \/ \E c \in Callers : CallFuse(c)
    \/ \E c \in Callers : CallReturn(c)

SpecConcurrent == InitConcurrent /\ [][NextConcurrent]_vars

\* What retrieve returns for query q when no other call runs.
RetrieveAlone(h, q) ==
    LET bm25_results   == BM25Retrieve(h.bm25_retriever,
                              QueryScores(q, Len(h.bm25_retriever.bm25_index.corpus)),
                              q.top_k * 2)
        vector_results == VectorRetrieve(h.vector_retriever,
                              QueryNearest(q, Len(h.vector_retriever.faiss_index.docstore)),
                              q.top_k * 2)
    IN  Take(reciprocal_rank_fusion(h, bm25_results, vector_results,
                                    Len(h.bm25_retriever.documents)), q.top_k)

\* The retriever load_hybrid_retriever built from the bundle of the save.
LoadedRetriever ==
    load_hybrid_retriever(
        [bm25_index  |-> build_bm25_index(saved[1].documents),
         faiss_index |-> build_faiss_index(saved[1].documents),
         documents   |-> saved[1].documents,
         metadata    |-> Catalog("T1", saved[1].documents)],
        hr.given.bm25_weight, hr.given.vector_weight)

\* C18: however the steps of concurrent retrieve calls interleave, the
\* loaded chunk store, both indexes and the weights stay what the load
\* made them, the persisted bundle stays what the save wrote, and every
\* call returns the list the same query gives when run alone.
C18_RetrievalReadOnly ==
    /\ hr = LoadedRetriever
    /\ disk["T1"] = Persisted("T1", saved[1].documents, 1)
    /\ \A c \in Callers :
          calls[c].pc = "done" => calls[c].results = RetrieveAlone(LoadedRetriever, calls[c].query)

\* C18 witness: a call whose steps were interleaved with those of a call
\* for another query has returned the non-empty list of its query alone.
C18_Witness ==
    \E c, d \in Callers :
        /\ c # d
        /\ calls[c].pc = "done" /\ calls[c].interleaved
        /\ calls[d].pc # "idle"
        /\ calls[d].query # calls[c].query
        /\ RetrieveAlone(hr, calls[d].query) # RetrieveAlone(hr, calls[c].query)
        /\ calls[c].results # <<>>
        /\ calls[c].results = RetrieveAlone(hr, calls[c].query)
\* C19: a step after which index_thread stands ended by the exception of
\* the embedding call has created and modified no file of any thread and
\* started no save; a thread without a bundle is still without one.
C19_EmbedFailureWritesNothing ==
    [][\A w \in Writers :
          wr'[w].outcome = "embed_error"
             => /\ disk' = disk
                /\ nsaves' = nsaves
                /\ \A t \in Threads : ~HasBundle(disk[t]) => ~HasBundle(disk'[t])]_vars

\* C19 witness: index_thread of a thread without a bundle has ended with
\* the embedding error, and a load of the thread has ended with not-found.
C19_Witness ==
    \E w \in Writers :
        /\ wr[w].pc = "done" /\ wr[w].outcome = "embed_error"
        /\ disk[wr[w].tid] = NoDir
        /\ rd.pc = "done" /\ rd.tid = wr[w].tid /\ rd.err = "NotFound"
(***************************************************************************)
(* The three-chunk scenario.                                               *)
(***************************************************************************)
\* The chunk_id of the chunk at a corpus position.
ChunkAt(pos) == hr.bm25_retriever.documents[pos].metadata.chunk_id

\* The chunk ids of the returned list.
ResultIds == {ret.results[i].doc.metadata.chunk_id : i \in 1..Len(ret.results)}

\* retrieve(query, 2) has returned over a corpus of three chunks with
\* weights 0.5/0.5, the lexical retriever having ranked chunks 1 and 3
\* above chunk 2.
Scenario ==
    /\ Called
    /\ CorpusSize = 3
    /\ ~HasDuplicateIds(hr.bm25_retriever.documents)
    /\ hr.bm25_weight = Half /\ hr.vector_weight = Half /\ hr.k = 60
    /\ ret.top_k = 2
    /\ Len(ret.bm25_results) = 3 /\ Len(ret.vector_results) = 3
    /\ ret.bm25_results[3].doc.metadata.chunk_id = ChunkAt(2)

\* C20 as stated: in the scenario the fused top-2 consists of chunks 1 and
\* 3, whatever the order of the vector retriever.
C20_Top2IsOneAndThree ==
    Scenario => ResultIds = {ChunkAt(1), ChunkAt(3)}

\* C20 amended: in the scenario the fused top-2 consists of chunks 1 and 3
\* when the vector retriever does not rank chunk 2 first; when it ranks
\* chunk 2 first, the fused top-2 consists of the chunk the lexical
\* retriever ranked first and chunk 2.
C20_Top2Amended ==
    Scenario =>
        IF ret.vector_results[1].doc.metadata.chunk_id = ChunkAt(2)
        THEN ResultIds = {ret.bm25_results[1].doc.metadata.chunk_id, ChunkAt(2)}
        ELSE ResultIds = {ChunkAt(1), ChunkAt(3)}

\* C20 witness: the scenario with the lexical order 1, 3, 2 and the vector
\* order 1, 2, 3: the top-2 are chunks 1 and 3.
C20_Witness ==
    /\ Scenario
    /\ ret.bm25_results[1].doc.metadata.chunk_id = ChunkAt(1)
    /\ ret.vector_results[1].doc.metadata.chunk_id = ChunkAt(1)
    /\ ret.vector_results[2].doc.metadata.chunk_id = ChunkAt(2)
    /\ ResultIds = {ChunkAt(1), ChunkAt(3)}

(***************************************************************************)
(* The catalog file and the load.                                          *)
(***************************************************************************)
\* The three artifacts a load has read, as a thread directory.
ReadBundle ==
    [dir |-> TRUE, bm25 |-> rd.bm25_index, faiss |-> rd.faiss_index,
     meta |-> rd.metadata, docs |-> rd.documents]

\* C21: a load that has read a lexical index, a vector index and a chunk
\* store that are present and aligned returns the bundle, whatever the
\* state of the catalog file.
C21_CatalogNotNeeded ==
    (rd.pc = "done" /\ Aligned(ReadBundle)) => rd.err = "ok"

(***************************************************************************)
(* Metadata of the chunks of a thread.                                     *)
(***************************************************************************)
\* The metadata keys every chunk must carry.
RequiredKeys == {"thread_id", "message_id", "doc_type"}

Email3 == [message_id |-> "m3", thread_id |-> "T2",
           subject |-> <<"Vendor">>, body |-> <<"draft">>]

\* The email lists of a thread, as the thread builder groups them.
ThreadInputs(thread_id) ==
    IF thread_id = "T1" THEN {<<>>, <<Email1, Email2>>} ELSE {<<>>, <<Email3>>}

\* The thread a process indexes: each process has a thread of its own.
ThreadOf(w) == IF w = W1 THEN "T1" ELSE "T2"

NextIndexers ==
    \/ \E w \in Writers, ok \in BOOLEAN :
          \E e \in ThreadInputs(ThreadOf(w)) : IndexThread(w, ThreadOf(w), e, ok)
    \/ \E w \in Writers : SaveMkdir(w)
    \/ \E w \in Writers : SaveBM25(w)
    \/ \E w \in Writers : SaveFaiss(w)
    \/ \E w \in Writers : SaveMeta(w)
    \/ \E w \in Writers : SaveDocs(w)
    \/ \E w \in Writers, truncated \in BOOLEAN : SaveFail(w, truncated)

SpecIndexers == Init /\ [][NextIndexers]_vars

\* The directory of a thread after index_thread(thread_id, thread_emails)
\* ran alone and returned.
BundleAlone(thread_id, thread_emails) ==
    LET documents == create_chunks(thread_emails, <<>>)
    IN  [dir   |-> TRUE,
         bm25  |-> build_bm25_index(documents),
         faiss |-> build_faiss_index(documents),
         meta  |-> Catalog(thread_id, documents),
         docs  |-> PickleDocs(documents)]

\* What the files of a directory hold, whichever save wrote them.
Content(d) ==
    [dir |-> d.dir, bm25 |-> d.bm25.val, faiss |-> d.faiss.val,
     meta |-> d.meta.val, docs |-> d.docs.val]

\* C23: in every interleaving of index_thread calls on distinct threads, a
\* step of a call changes no directory but that of its own thread, and
\* when a call returns, the directory of its thread holds what the call
\* running alone would have written.
C23_IndependentThreads ==
    [][\A w \in Writers :
          /\ wr'[w] # wr[w]
                => \A t \in Threads \ {wr'[w].tid} : disk'[t] = disk[t]
          /\ (wr[w].pc = "docs" /\ wr'[w].outcome = "ok")
                => /\ HasBundle(disk'[wr[w].tid])
                   /\ Content(disk'[wr[w].tid])
                        = BundleAlone(wr[w].tid, saved[wr[w].gen].thread_emails)]_vars

\* C23 witness: a call on one thread has returned after it started and
\* ended inside the run of a call on another thread, which is at its last
\* write; both threads have their artifacts.
C23_Witness ==
    \E w, o \in Writers :
        /\ wr[w].pc = "done" /\ wr[w].outcome = "ok"
        /\ wr[o].pc = "docs" /\ wr[o].gen < wr[w].gen
        /\ wr[o].tid # wr[w].tid
        /\ HasBundle(disk[wr[w].tid])
        /\ disk[wr[o].tid].faiss.st = "ok"

(***************************************************************************)
(* A ConversationMemory under add_turn and clear.                          *)
(***************************************************************************)
\* Questions and answers of a conversation.
Question1 == <<"who", "approved", "the", "budget">>
Question2 == <<"when", "was", "it", "sent">>
Answer1 == <<"Sarah", "approved", "[msg: m1]">>

\* A memory constructed with some max_turns.
InitMemory ==
    /\ disk = [t \in Threads |-> NoDir]
    /\ wr = [w \in Writers |-> WrIdle]
    /\ rd = RdIdle
    /\ nsaves = 0
    /\ saved = <<>>
    /\ hr = NoRetriever
    /\ ret = NoCall
    /\ ck = NoChunking
    /\ calls = [c \in Callers |-> CallIdle]
    /\ frames = [c \in Callers |-> NoFrame]
    /\ \E max_turns \in 0..MaxTurnsArg : mem = NewMemory(max_turns)
    /\ ask = AskIdle
    /\ sessions = NoSessions

\* memory.add_turn(user_message, assistant_message)
MemoryAddTurn(user_message, assistant_message) ==
    /\ Len(mem.added) < MaxAdds
    /\ mem' = memory_add_turn(mem, user_message, assistant_message)
    /\ UNCHANGED <<pvars, rvars, cvars, qvars, ask, sessions>>

\* memory.clear()
MemoryClear ==
    /\ mem' = memory_clear(mem)
    /\ UNCHANGED <<pvars, rvars, cvars, qvars, ask, sessions>>

NextMemory ==
    \/ \E u \in {Question1, Question2} : MemoryAddTurn(u, Answer1)
    \/ MemoryClear

SpecMemory == InitMemory /\ [][NextMemory]_vars

\* C24: the turn list has at most max_turns entries, and they are the
\* most recently added turns since the last clear, in the order they were
\* added.
C24_AtMostMaxTurns ==
    LET max_turns == mem.conversation.max_turns
        turns     == mem.conversation.turns
        kept      == IF Len(mem.added) < max_turns THEN Len(mem.added) ELSE max_turns
    IN  /\ Len(turns) <= max_turns
        /\ turns = SubSeq(mem.added, Len(mem.added) - kept + 1, Len(mem.added))

(***************************************************************************)
(* Query rewriting: QueryRewriteNodes and the graph of QueryRewriter.  A   *)
(* query is the sequence of its words.                                     *)
(***************************************************************************)
\* query.lower()
LowerQuery(query) == [i \in 1..Len(query) |-> Lower(query[i])]

Pronouns == {"it", "that", "this", "he", "she", "they", "him", "her", "them"}

\* The reference and correction phrases, word by word.
References ==
    {<<"the", "draft">>, <<"the", "contract">>, <<"the", "proposal">>,
     <<"the", "document">>, <<"the", "file">>, <<"the", "budget">>,
     <<"the", "approval">>, <<"earlier">>, <<"previous">>, <<"that", "one">>,
     <<"first">>, <<"second">>, <<"last">>}
Corrections ==
    {<<"no,">>, <<"actually,">>, <<"i", "meant">>, <<"sorry,">>, <<"instead">>}

\* `part in word` for the words of the model: a word holds itself, and
\* the words listed hold a shorter one.
InWord(part, word) ==
    \/ word = part
    \/ <<part, word>> \in {<<"budget", "budget.pdf">>, <<"last", "lastly">>}

\* `phrase in query`: the phrase is a substring of the query.
InQuery(phrase, query) ==
    \E i \in 1..Len(query) :
        /\ i + Len(phrase) - 1 <= Len(query)
        /\ \A j \in 1..Len(phrase) : InWord(phrase[j], query[i + j - 1])

\* QueryRewriteNodes.analyze_query
analyze_query(state) ==
    LET query           == LowerQuery(state.original_query)
        has_pronouns    == \E i \in 1..Len(query) : query[i] \in Pronouns
        has_references  == \E ref \in References : InQuery(ref, query)
        has_corrections == \E corr \in Corrections : InQuery(corr, query)
        is_short        == Len(query) < 4
    IN  [state EXCEPT !.has_pronouns = has_pronouns,
                      !.has_references = has_references,
                      !.needs_rewrite = has_pronouns \/ has_references
                                           \/ has_corrections \/ is_short]

\* QueryRewriteNodes.should_rewrite
should_rewrite(state) == IF state.needs_rewrite THEN "rewrite" ELSE "skip"

\* The skip node of the graph.
skip(state) ==
    [state EXCEPT !.rewritten_query = state.original_query,
                  !.rewrite_reasoning = "Query is clear, no rewrite needed"]

\* A rewrite node without the try/except around the LLM call: what the
\* call raised takes the place of the query.
rewrite_query_uncaught(state, llm) ==
    IF ~state.needs_rewrite THEN skip(state)
    ELSE [state EXCEPT !.rewritten_query = llm.text,
                       !.rewrite_reasoning =
                           IF llm.raised THEN "raised"
                           ELSE IF LowerQuery(llm.text) = LowerQuery(state.original_query)
                           THEN "LLM determined no rewrite needed"
                           ELSE "Resolved references using conversation context"]

\* QueryRewriteNodes.rewrite_query; llm is what self.chain.invoke does when
\* it is called: it raises, or returns a text.
rewrite_query(state, llm) ==
    IF ~state.needs_rewrite THEN skip(state)
    ELSE IF llm.raised
    THEN [state EXCEPT !.rewritten_query = state.original_query,
                       !.rewrite_reasoning = "LLM error, using original query"]
    ELSE [state EXCEPT !.rewritten_query = llm.text,
                       !.rewrite_reasoning =
                           IF LowerQuery(llm.text) = LowerQuery(state.original_query)
                           THEN "LLM determined no rewrite needed"
                           ELSE "Resolved references using conversation context"]

\* QueryRewriter.rewrite: the initial state of the graph.
initial_state(query, memory_context) ==
    [original_query       |-> query,
     conversation_history |-> memory_context.conversation_history,
     entities             |-> memory_context.entities,
     last_mentioned       |-> memory_context.last_mentioned,
     has_pronouns      |-> FALSE,
     has_references    |-> FALSE,
     needs_rewrite     |-> FALSE,
     rewritten_query   |-> <<>>,
     rewrite_reasoning |-> ""]

(***************************************************************************)
(* Answer generation: QAChain.                                             *)
(***************************************************************************)
\* metadata.get(key, default)
Get(metadata, key, default) ==
    IF key \in DOMAIN metadata THEN metadata[key] ELSE default

\* The fixed answer for an empty retrieved list.
NoInformation == <<"I", "don't", "have", "enough", "information">>

\* What the citation pattern finds in one word of the answer: nothing, or
\* the message id and the page of a marker [msg: id] / [msg: id, page: n]
\* (<<>> is no page).
CitationOf(word) ==
    CASE word = "[msg: m1]"          -> <<[message_id |-> "m1", page |-> <<>>]>>
      [] word = "[msg: m2, page: 3]" -> <<[message_id |-> "m2", page |-> <<3>>]>>
      [] word = "[msg: m9]"          -> <<[message_id |-> "m9", page |-> <<>>]>>
      [] OTHER                       -> <<>>

\* re.findall(pattern, answer)
CitationMatches(answer) ==
    Concat([i \in 1..Len(answer) |-> CitationOf(answer[i])])

\* A citation for every marker of the answer, retrieved or not.
CitationsUnchecked(match, retrieved_docs) ==
    <<[type |-> "unknown", message_id |-> match.message_id, page |-> match.page,
       filename |-> <<>>]>>

\* The inner loop of _extract_citations: the citation of the first
\* retrieved document with the message id of the marker, if there is one.
CitationFor(match, retrieved_docs) ==
    LET hits == {i \in 1..Len(retrieved_docs) :
                    Get(retrieved_docs[i].doc.metadata, "message_id", "None")
                        = match.message_id}
    IN  IF hits = {} THEN <<>>
        ELSE LET metadata == retrieved_docs[CHOOSE i \in hits :
                                               \A j \in hits : i <= j].doc.metadata
             IN  <<[type       |-> Get(metadata, "doc_type", "unknown"),
                    message_id |-> match.message_id,
                    page       |-> match.page,
                    filename   |-> IF "filename" \in DOMAIN metadata
                                   THEN <<metadata.filename>> ELSE <<>>]>>

\* QAChain._extract_citations
extract_citations(answer, retrieved_docs) ==
    LET matches == CitationMatches(answer)
    IN  Concat([m \in 1..Len(matches) |-> CitationFor(matches[m], retrieved_docs)])

\* The answer is generated by the LLM only for a non-empty retrieved list.
CallsLLM(retrieved_docs) == retrieved_docs # <<>>

\* QAChain.answer; llm is what self.chain.invoke does when it is called.
answer(question, retrieved_docs, llm) ==
    IF ~CallsLLM(retrieved_docs)
    THEN [answer |-> NoInformation, citations |-> <<>>, context_used |-> <<>>]
    ELSE IF llm.raised
    THEN [answer |-> <<"Error", "generating", "answer:">> \o llm.text,
          citations |-> <<>>, context_used |-> <<>>]
    ELSE [answer |-> llm.text,
          citations |-> extract_citations(llm.text, retrieved_docs),
          context_used |->
              [i \in 1..Len(Take(retrieved_docs, 3)) |->
                  [chunk_id   |-> Get(retrieved_docs[i].doc.metadata, "chunk_id", <<>>),
                   message_id |-> Get(retrieved_docs[i].doc.metadata, "message_id", "None"),
                   score      |-> retrieved_docs[i].score]]]

(***************************************************************************)
(* ThreadSession: one session on the bundle of thread T1, its ask calls    *)
(* step by step, and reset.                                                *)
(***************************************************************************)
\* A question without pronoun, reference or correction, of four words.
Question3 == <<"what", "did", "Sarah", "propose">>
\* Question2 with its pronoun resolved.
Question2Resolved == <<"when", "was", "budget.pdf", "sent">>
\* An answer citing an attachment page and a message that was not
\* retrieved; the text of an LLM exception.
Answer2 == <<"sent", "today", "[msg: m2, page: 3]", "[msg: m9]">>
LLMError == <<"timeout">>

\* What the LLM of the rewriter does with a query: it raises, returns the
\* query as it is, or returns a resolved query.
RewriteLLM(query) ==
    {[raised |-> TRUE, text |-> LLMError],
     [raised |-> FALSE, text |-> query],
     [raised |-> FALSE, text |-> Question2Resolved]}

\* What the LLM of the QA chain does: it raises, or returns an answer.
AnswerLLM ==
    {[raised |-> TRUE, text |-> LLMError],
     [raised |-> FALSE, text |-> Answer1],
     [raised |-> FALSE, text |-> Answer2]}

RECURSIVE AfterTurns(_, _)
\* The memory of a session after n turns of one question and answer.
AfterTurns(m, n) ==
    IF n = 0 THEN m
    ELSE memory_add_turn(AfterTurns(m, n - 1), Question1, Answer1)

\* The session ThreadSession("T1") constructed: the retriever loaded from
\* the bundle of T1, a memory of max_turns = 5; the session is new or has
\* had as many turns as its memory keeps.
InitSession ==
    /\ InitLoaded
    /\ Len(saved[1].thread_emails) = 2
    /\ hr.given.bm25_weight = <<>>
    /\ hr.given.vector_weight = <<>>
    /\ \E n \in {0, SessionMaxTurns} : mem = AfterTurns(NoMemory, n)
    /\ ask = [AskIdle EXCEPT !.thread_id = "T1", !.session_id = "s1"]
    /\ sessions = NoSessions

\* ask up to the call of the rewriter: memory_context =
\* self.memory.get_context_for_rewrite(), and the initial state of the graph.
AskStart(question, top_k) ==
    /\ ask.pc = "idle"
    /\ ask.asked < MaxAsks
    /\ ask' = [ask EXCEPT !.pc = "analyze", !.question = question, !.top_k = top_k,
                          !.state = initial_state(question, get_context_for_rewrite(mem)),
                          !.before = mem, !.asked = @ + 1]
    /\ UNCHANGED <<pvars, rvars, cvars, qvars, mem, sessions>>

\* The entry node of the graph and its conditional edge.
AskAnalyze ==
    /\ ask.pc = "analyze"
    /\ ask' = [ask EXCEPT !.state = analyze_query(ask.state),
                          !.pc = should_rewrite(analyze_query(ask.state)),
                          !.steps = Append(@, "analyze")]
    /\ UNCHANGED <<pvars, rvars, cvars, qvars, mem, sessions>>

\* The rewrite node; the graph ends and rewrite returns.
AskRewriteNode(llm) ==
    /\ ask.pc = "rewrite"
    /\ ask' = [ask EXCEPT !.state = rewrite_query(ask.state, llm),
                          !.rewritten_query = rewrite_query(ask.state, llm).rewritten_query,
                          !.pc = "retrieve",
                          !.llm_raised = llm.raised,
                          !.steps = Append(@, "rewrite")]
    /\ UNCHANGED <<pvars, rvars, cvars, qvars, mem, sessions>>

\* The skip node; the graph ends and rewrite returns.
AskSkipNode ==
    /\ ask.pc = "skip"
    /\ ask' = [ask EXCEPT !.state = skip(ask.state),
                          !.rewritten_query = skip(ask.state).rewritten_query,
                          !.pc = "retrieve",
                          !.steps = Append(@, "skip")]
    /\ UNCHANGED <<pvars, rvars, cvars, qvars, mem, sessions>>

\* retrieved_docs = self.retriever.retrieve(rewritten_query, top_k=top_k):
\* an exception of retrieve leaves ask.
AskRetrieve(q, bm25_raised, vector_raised) ==
    /\ ask.pc = "retrieve"
    /\ q.top_k = ask.top_k
    /\ bm25_raised => ~vector_raised
    /\ ask' = IF Propagates(bm25_raised, vector_raised)
              THEN [ask EXCEPT !.pc = "done", !.err = "retrieve",
                               !.steps = Append(@, "retrieve")]
              ELSE [ask EXCEPT !.pc = "answer",
                               !.retrieved_docs = RetrieveAlone(hr, q),
                               !.steps = Append(@, "retrieve")]
    /\ UNCHANGED <<pvars, rvars, cvars, qvars, mem, sessions>>

\* qa_result = self.qa_chain.answer(rewritten_query, retrieved_docs)
AskAnswer(llm) ==
    /\ ask.pc = "answer"
    /\ ask' = [ask EXCEPT !.pc = "memory",
                          !.qa_result = answer(ask.rewritten_query, ask.retrieved_docs, llm),
                          !.llm_called = CallsLLM(ask.retrieved_docs),
                          !.steps = Append(@, "answer")]
    /\ UNCHANGED <<pvars, rvars, cvars, qvars, mem, sessions>>

\* The response dictionary of ask.
Response ==
    [answer            |-> ask.qa_result.answer,
     citations         |-> ask.qa_result.citations,
     rewritten_query   |-> ask.rewritten_query,
     rewrite_reasoning |-> ask.state.rewrite_reasoning,
     retrieved_chunks  |-> ask.qa_result.context_used,
     thread_id         |-> ask.thread_id,
     session_id        |-> ask.session_id]

\* An ask that remembers the rewritten query as the question of the turn.
AskAddTurnRewritten ==
    /\ ask.pc = "memory"
    /\ mem' = memory_add_turn(mem, ask.rewritten_query, ask.qa_result.answer)
    /\ ask' = [ask EXCEPT !.pc = "done", !.response = Response,
                          !.steps = Append(@, "memory"), !.reset_done = FALSE,
                          !.cleared = <<>>]
    /\ UNCHANGED <<pvars, rvars, cvars, qvars, sessions>>

\* self.memory.add_turn(question, qa_result['answer']), and the response
\* is built.
AskAddTurn ==
    /\ ask.pc = "memory"
    /\ mem' = memory_add_turn(mem, ask.question, ask.qa_result.answer)
    /\ ask' = [ask EXCEPT !.pc = "done", !.response = Response,
                          !.steps = Append(@, "memory"), !.reset_done = FALSE,
                          !.cleared = <<>>]
    /\ UNCHANGED <<pvars, rvars, cvars, qvars, sessions>>

\* ask has returned or raised; the caller may call again.
AskReturn ==
    /\ ask.pc = "done"
    /\ ask' = [AskIdle EXCEPT !.thread_id = ask.thread_id,
                              !.session_id = ask.session_id,
                              !.asked = ask.asked,
                              !.reset_done = ask.reset_done,
                              !.cleared = ask.cleared]
    /\ UNCHANGED <<pvars, rvars, cvars, qvars, mem, sessions>>

\* ThreadSession.reset
SessionReset ==
    /\ ask.pc = "idle"
    /\ mem' = memory_clear(mem)
    /\ ask' = [ask EXCEPT !.reset_done = TRUE, !.cleared = <<mem>>]
    /\ UNCHANGED <<pvars, rvars, cvars, qvars, sessions>>

\* The queries of the session, by what they make the retrievers return.
SessionQueries == {[top_k |-> 2, hit |-> h, shift |-> 0] : h \in 0..1}

NextSession ==
    \/ \E question \in {Question1, Question2, Question3} : AskStart(question, 2)
    \/ AskAnalyze
    \/ \E llm \in RewriteLLM(ask.question) : AskRewriteNode(llm)
    \/ AskSkipNode
    \/ \E q \in SessionQueries, bm25_raised, vector_raised \in BOOLEAN :
          AskRetrieve(q, bm25_raised, vector_raised)
    \/ \E llm \in AnswerLLM : AskAnswer(llm)
    \/ AskAddTurn
    \/ AskReturn
    \/ SessionReset

SpecSession == InitSession /\ [][NextSession]_vars

\* The ask call is between its first and its last step.
AskInFlight == ask.pc \in {"analyze", "rewrite", "skip", "retrieve", "answer", "memory"}

\* C25: ask touches the memory last and once.  While a call is in flight
\* the memory is what it was when the call began; a call that has
\* returned ran rewrite, retrieval and answer generation in that order and
\* then added exactly one turn, the original question with the returned
\* answer; a call that has raised left conversation and entity memory as
\* they were.
C25_MemoryUpdatedLast ==
    /\ AskInFlight => mem = ask.before
    /\ (ask.pc = "done" /\ ask.err = "none")
          => /\ mem = memory_add_turn(ask.before, ask.question, ask.response.answer)
             /\ mem.added = Append(ask.before.added,
                                   [user |-> ask.question,
                                    assistant |-> ask.response.answer])
             /\ ask.steps \in {<<"analyze", "rewrite", "retrieve", "answer", "memory">>,
                               <<"analyze", "skip", "retrieve", "answer", "memory">>}
    /\ (ask.pc = "done" /\ ask.err # "none") => mem = ask.before

\* C25 witness: a call on a full memory has returned after its question
\* was rewritten to another query; the newest turn holds the original
\* question.
C25_Witness ==
    /\ ask.pc = "done" /\ ask.err = "none"
    /\ ask.rewritten_query # ask.question
    /\ Len(ask.before.conversation.turns) = SessionMaxTurns
    /\ Len(mem.conversation.turns) = SessionMaxTurns
    /\ mem.conversation.turns[SessionMaxTurns].user = ask.question
    /\ mem.conversation.turns[SessionMaxTurns].assistant = ask.response.answer

(***************************************************************************)
(* index_thread on input without chunks.                                   *)
(***************************************************************************)
\* C26: an index_thread call whose input yields no chunk returns without
\* error and without a save: no directory or file is created or changed,
\* and a thread that had a bundle still has it.
C26_EmptyInputWritesNothing ==
    [][\A w \in Writers :
          wr'[w].outcome = "empty"
             => /\ wr'[w].pc = "done"
                /\ disk' = disk
                /\ nsaves' = nsaves /\ saved' = saved
                /\ \A t \in Threads : HasBundle(disk[t]) => HasBundle(disk'[t])]_vars

\* C26 witness: index_thread of a thread with a bundle has returned on
\* input without chunks, and a load of the thread that began afterwards
\* has returned the bundle of the earlier save.
C26_Witness ==
    \E w \in Writers :
        /\ wr[w].pc = "done" /\ wr[w].outcome = "empty"
        /\ HasBundle(disk[wr[w].tid])
        /\ Loaded /\ rd.tid = wr[w].tid
        /\ rd.after = 0
        /\ nsaves = 1
        /\ LoadResult.documents = saved[1].documents

(***************************************************************************)
(* The API: the session registry of routes.py.  A handler is an async def  *)
(* that awaits nothing, so the event loop runs it from its first to its    *)
(* last statement before it starts another.                                *)
(***************************************************************************)
\* str(uuid.uuid4())[:8]: the values the session id of a new session can
\* take; nothing relates it to the ids drawn before.
SessionIds == {"s1", "s2"}

\* The exception load_thread_index raises on a directory, "none" if it
\* returns.
LoadError(d) ==
    IF ~d.dir THEN "NotFound"
    ELSE IF ReadError(d.bm25, "NotFound") # "none" THEN ReadError(d.bm25, "NotFound")
    ELSE IF ReadError(d.faiss, "RuntimeError") # "none" THEN ReadError(d.faiss, "RuntimeError")
    ELSE IF ReadError(d.docs, "NotFound") # "none" THEN ReadError(d.docs, "NotFound")
    ELSE ReadError(d.meta, "NotFound")

\* The dictionary load_thread_index returns for a directory.
IndexData(d) ==
    [bm25_index  |-> d.bm25.val,
     faiss_index |-> d.faiss.val,
     documents   |-> UnpickleDocs(d.docs.val),
     metadata    |-> d.meta.val]

\* ThreadSession(thread_id) when its construction succeeds; obj tells the
\* objects apart.
NewSession(thread_id, session_id, obj) ==
    [thread_id  |-> thread_id,
     session_id |-> session_id,
     retriever  |-> load_hybrid_retriever(IndexData(disk[thread_id]), <<>>, <<>>),
     memory     |-> NoMemory,
     obj        |-> obj]

\* The memory of a session after ThreadSession.ask returned.
MemoryAfterAsk(session, question, q, rewrite_llm, answer_llm) ==
    LET analyzed  == analyze_query(initial_state(
                         question, get_context_for_rewrite(session.memory)))
        rewritten == IF should_rewrite(analyzed) = "rewrite"
                     THEN rewrite_query(analyzed, rewrite_llm)
                     ELSE skip(analyzed)
        retrieved == RetrieveAlone(session.retriever, q)
        qa_result == answer(rewritten.rewritten_query, retrieved, answer_llm)
    IN  memory_add_turn(session.memory, question, qa_result.answer)

\* The server has started; thread T1 has its bundle, thread T2 has no
\* directory or one whose documents.pkl is truncated.
InitAPI ==
    LET documents == create_chunks(<<Email1, Email2>>, <<>>)
    IN  /\ \E d2 \in {NoDir, [Persisted("T2", create_chunks(<<Email3>>, <<>>), 2)
                                EXCEPT !.docs = Partial]} :
              disk = [t \in Threads |->
                        IF t = "T1" THEN Persisted("T1", documents, 1) ELSE d2]
        /\ wr = [w \in Writers |-> WrIdle]
        /\ rd = RdIdle
        /\ nsaves = 0
        /\ saved = <<>>
        /\ hr = NoRetriever
        /\ ret = NoCall
        /\ ck = NoChunking
        /\ calls = [c \in Callers |-> CallIdle]
        /\ frames = [c \in Callers |-> NoFrame]
        /\ mem = NoMemory
        /\ ask = AskIdle
        /\ sessions = NoSessions

\* The answer of a handler.
Answered(op, status, session_id) ==
    [op |-> op, status |-> status, session_id |-> session_id]

\* POST /start_session: ThreadSession(thread_id) draws its session id and
\* loads the retriever; an exception of the constructor is answered with
\* 500, else sessions[session.session_id] = session.
StartSession(thread_id, uuid) ==
    /\ sessions.created < MaxSessions
    /\ sessions' =
          IF LoadError(disk[thread_id]) # "none"
          THEN [sessions EXCEPT !.response = Answered("start_session", 500, "")]
          ELSE [sessions EXCEPT
                   !.registry = (uuid :> NewSession(thread_id, uuid, sessions.created + 1)) @@ @,
                   !.created = @ + 1,
                   !.response = Answered("start_session", 200, uuid)]
    /\ UNCHANGED <<pvars, rvars, cvars, qvars, mem, ask>>

\* POST /ask: 404 for an id that is not registered; else session.ask,
\* whose exception is answered with 500.
AskQuestion(session_id, question, q, raised, rewrite_llm, answer_llm) ==
    /\ sessions.asked < MaxAsks
    /\ sessions' =
          IF session_id \notin DOMAIN sessions.registry
          THEN [sessions EXCEPT !.response = Answered("ask", 404, session_id)]
          ELSE IF raised
          THEN [sessions EXCEPT !.response = Answered("ask", 500, session_id),
                                !.asked = @ + 1]
          ELSE [sessions EXCEPT
                   !.registry[session_id].memory =
                       MemoryAfterAsk(sessions.registry[session_id], question, q,
                                      rewrite_llm, answer_llm),
                   !.asked = @ + 1,
                   !.response = Answered("ask", 200, session_id)]
    /\ UNCHANGED <<pvars, rvars, cvars, qvars, mem, ask>>

\* POST /reset_session: 404 for an id that is not registered; else
\* session.reset().
ResetSession(session_id) ==
    /\ sessions' =
          IF session_id \notin DOMAIN sessions.registry
          THEN [sessions EXCEPT !.response = Answered("reset_session", 404, session_id)]
          ELSE [sessions EXCEPT
                   !.registry[session_id].memory = memory_clear(@),
                   !.response = Answered("reset_session", 200, session_id)]
    /\ UNCHANGED <<pvars, rvars, cvars, qvars, mem, ask>>

NextAPI ==
    \/ \E thread_id \in Threads, uuid \in SessionIds : StartSession(thread_id, uuid)
    \/ \E session_id \in SessionIds, question \in {Question1, Question3},
          raised \in BOOLEAN, rewrite_llm \in RewriteLLM(Question1),
          answer_llm \in AnswerLLM :
          AskQuestion(session_id, question, [top_k |-> 2, hit |-> 0, shift |-> 0],
                      raised, rewrite_llm, answer_llm)
    \/ \E session_id \in SessionIds : ResetSession(session_id)

SpecAPI == InitAPI /\ [][NextAPI]_vars

\* C27: a session is registered only by a start_session whose construction
\* succeeded, a failed start registers nothing; ask and reset_session on an
\* id that is not registered answer 404 and change no session; no
\* operation removes the session registered under an id or puts another
\* session in its place.
C27_SessionRegistry ==
    [][/\ \A id \in DOMAIN sessions'.registry \ DOMAIN sessions.registry :
             /\ sessions'.response = Answered("start_session", 200, id)
             /\ LoadError(disk[sessions'.registry[id].thread_id]) = "none"
       /\ (sessions'.response.status \in {404, 500}
              /\ sessions'.response.op = "start_session")
             => sessions'.registry = sessions.registry
       /\ \A id \in SessionIds \ DOMAIN sessions.registry :
             sessions'.response.session_id = id
                /\ sessions'.response.op \in {"ask", "reset_session"}
                => /\ sessions'.response.status = 404
                   /\ sessions'.registry = sessions.registry
       /\ \A id \in DOMAIN sessions.registry :
             /\ id \in DOMAIN sessions'.registry
             /\ sessions'.registry[id].obj = sessions.registry[id].obj]_vars

(***************************************************************************)
(* ThreadSession.reset.                                                    *)
(***************************************************************************)
\* The rewrite context of a session without memory.
EmptyContext ==
    [conversation_history   |-> <<>>,
     last_user_message      |-> <<>>,
     last_assistant_message |-> <<>>,
     entities       |-> [t \in EntityTypes |-> {}],
     last_mentioned |-> [t \in EntityTypes |-> ""]]

\* C28: reset clears all memory and nothing else.  From a reset to the
\* next turn added, the rewrite context has an empty conversation history,
\* no last user or assistant message, empty entity sets and no last
\* mentioned value, and the memory is that of a new session; the reset
\* leaves thread_id, session_id and the loaded retriever as they were; the
\* next ask starts the rewriter on the empty context and adds its turn to
\* an empty memory, as the first ask of a new session does.
C28_ResetClearsMemoryOnly ==
    [][/\ ask'.reset_done
             => /\ get_context_for_rewrite(mem') = EmptyContext
                /\ mem' = NoMemory
       /\ (ask'.reset_done /\ ask.pc = "idle" /\ ask'.pc = "idle")
             => /\ ask'.thread_id = ask.thread_id
                /\ ask'.session_id = ask.session_id
                /\ hr' = hr
                /\ disk' = disk
       /\ (ask.reset_done /\ ask.pc = "idle" /\ ask'.pc # "idle")
             => ask'.state = initial_state(ask'.question, EmptyContext)
       /\ (ask.reset_done /\ ~ask'.reset_done)
             => mem' = memory_add_turn(NoMemory, ask.question,
                                       ask.qa_result.answer)]_vars

\* C28 witness: a memory with as many turns as it keeps and entities of
\* them was reset, and the next ask is about to add its turn.
C28_Witness ==
    /\ ask.reset_done
    /\ ask.pc = "memory"
    /\ ask.cleared # <<>>
    /\ Len(ask.cleared[1].conversation.turns) = SessionMaxTurns
    /\ ask.cleared[1].entities # NoEntities
    /\ mem = NoMemory
    /\ ask.state.conversation_history = <<>>

(***************************************************************************)
(* QueryRewriter.rewrite alone.                                            *)
(***************************************************************************)
\* Queries with a pronoun, a reference phrase, a correction, fewer than
\* four words, a phrase inside a longer word, and none of these.
RewriteQueries ==
    {Question1, Question2, Question3, Question2Resolved,
     <<>>, <<"Sarah">>, <<"that", "one", "please">>,
     <<"Actually,", "what", "did", "Sarah", "propose">>,
     <<"i", "meant", "Sarah", "today">>,
     <<"where", "is", "the", "budget.pdf">>,
     <<"what", "happened", "lastly", "today">>,
     <<"who", "sent", "budget.pdf", "today">>}

\* rewrite(query, memory_context) has been called and the graph is at its
\* entry point; the memory has had no turn, one turn, or as many as it
\* keeps.
InitRewrite ==
    /\ disk = [t \in Threads |-> NoDir]
    /\ wr = [w \in Writers |-> WrIdle]
    /\ rd = RdIdle
    /\ nsaves = 0
    /\ saved = <<>>
    /\ hr = NoRetriever
    /\ ret = NoCall
    /\ ck = NoChunking
    /\ calls = [c \in Callers |-> CallIdle]
    /\ frames = [c \in Callers |-> NoFrame]
    /\ \E n \in {0, 1, SessionMaxTurns} : mem = AfterTurns(NoMemory, n)
    /\ \E query \in RewriteQueries :
          ask = [AskIdle EXCEPT
                    !.pc = "analyze", !.question = query,
                    !.state = initial_state(query, get_context_for_rewrite(mem))]
    /\ sessions = NoSessions

\* graph.invoke: the entry node, then the node its conditional edge names,
\* then END.
NextRewrite ==
    \/ AskAnalyze
    \/ \E llm \in RewriteLLM(ask.question) : AskRewriteNode(llm)
    \/ AskSkipNode

\* The graph runs a node that is ready.
SpecRewrite == InitRewrite /\ [][NextRewrite]_vars /\ WF_vars(NextRewrite)

\* The analysis of a query finds nothing: no pronoun, no reference phrase,
\* no correction, and at least four words.
FindsNothing(query) ==
    /\ \A i \in 1..Len(query) : Lower(query[i]) \notin Pronouns
    /\ \A phrase \in References \cup Corrections :
          ~InQuery(phrase, LowerQuery(query))
    /\ Len(query) >= 4

\* C29: rewrite always returns, after the analyze step and exactly one of
\* the rewrite and skip steps, and the LLM never makes it raise; when the
\* analysis finds nothing in a query of at least four words, or when the
\* LLM call fails, the rewritten query returned is the original query.
C29_RewriteReturns ==
    /\ <>(ask.pc = "retrieve")
    /\ [](/\ ask.err = "none"
          /\ ask.state.original_query = ask.question
          /\ ask.pc = "analyze" => ask.steps = <<>>
          /\ ask.pc \in {"rewrite", "skip"} => ask.steps = <<"analyze">>
          /\ ask.pc = "retrieve"
                => /\ ask.steps \in {<<"analyze", "rewrite">>, <<"analyze", "skip">>}
                   /\ ask.rewritten_query = ask.state.rewritten_query
                   /\ (FindsNothing(ask.question) \/ ask.llm_raised)
                         => ask.rewritten_query = ask.question)

\* C29 witness: the LLM call of the rewrite node failed on a query with a
\* pronoun, and rewrite returned the query.
C29_Witness ==
    /\ ask.pc = "retrieve"
    /\ ask.steps = <<"analyze", "rewrite">>
    /\ ask.llm_raised
    /\ ask.state.has_pronouns
    /\ ask.rewritten_query = Question2
    /\ ask.state.conversation_history # <<>>

(***************************************************************************)
(* QAChain.answer alone.                                                   *)
(***************************************************************************)
\* The chunks of thread T1 with budget.pdf linked to its second message.
QADocuments ==
    create_chunks(<<Email1, Email2>>,
                  load_attachments_for_thread(
                      "T1", LinksFile(<<Link("budget.pdf", "T1", "m2")>>),
                      AttachmentsData))

\* most chunks a retrieval returns
MaxRetrieved == 4

\* What retrieve can return: the empty list, or distinct chunks with
\* descending scores.
RetrievedLists ==
    UNION {{[i \in 1..k |-> [doc |-> QADocuments[s[i]], score |-> k - i + 1]] :
               s \in {f \in [1..k -> 1..Len(QADocuments)] :
                         \A i, j \in 1..k : f[i] = f[j] => i = j}} :
           k \in 0..MaxRetrieved}

\* ask has retrieved and is about to call the QA chain.
InitQA ==
    /\ disk = [t \in Threads |-> NoDir]
    /\ wr = [w \in Writers |-> WrIdle]
    /\ rd = RdIdle
    /\ nsaves = 0
    /\ saved = <<>>
    /\ hr = NoRetriever
    /\ ret = NoCall
    /\ ck = NoChunking
    /\ calls = [c \in Callers |-> CallIdle]
    /\ frames = [c \in Callers |-> NoFrame]
    /\ mem = NoMemory
    /\ \E retrieved_docs \in RetrievedLists :
          ask = [AskIdle EXCEPT
                    !.pc = "answer", !.question = Question1,
                    !.rewritten_query = Question1,
                    !.retrieved_docs = retrieved_docs]
    /\ sessions = NoSessions

NextQA == \E llm \in AnswerLLM : AskAnswer(llm)

SpecQA == InitQA /\ [][NextQA]_vars

\* C30: answer cites only what was retrieved.  Every citation returned has
\* the message_id of a retrieved chunk; context_used holds at most three
\* entries, entry i being retrieved chunk i with its score; for an empty
\* retrieved list the result is the fixed answer without citation and
\* context, and the LLM was not called.
C30_CitesOnlyRetrieved ==
    ask.pc = "memory" =>
        LET result == ask.qa_result
            docs   == ask.retrieved_docs
        IN  /\ \A c \in 1..Len(result.citations) :
                  \E d \in 1..Len(docs) :
                      docs[d].doc.metadata.message_id = result.citations[c].message_id
            /\ Len(result.context_used) <= 3
            /\ Len(result.context_used) <= Len(docs)
            /\ \A i \in 1..Len(result.context_used) :
                  result.context_used[i] =
                      [chunk_id   |-> docs[i].doc.metadata.chunk_id,
                       message_id |-> docs[i].doc.metadata.message_id,
                       score      |-> docs[i].score]
            /\ docs = <<>>
                  => /\ result.answer = NoInformation
                     /\ result.citations = <<>>
                     /\ result.context_used = <<>>
                     /\ ~ask.llm_called

\* C30 witness: four chunks were retrieved; the answer cites a page of a
\* retrieved attachment chunk and a message that was not retrieved; only
\* the first citation was kept, and the context lists three chunks.
C30_Witness ==
    /\ ask.pc = "memory"
    /\ ask.qa_result.answer = Answer2
    /\ Len(ask.retrieved_docs) = 4
    /\ "filename" \in DOMAIN ask.retrieved_docs[4].doc.metadata
    /\ Len(ask.qa_result.citations) = 1
    /\ ask.qa_result.citations[1].message_id = "m2"
    /\ ask.qa_result.citations[1].page = <<3>>
    /\ Len(ask.qa_result.context_used) = 3
====
